---------------------------- MODULE Spec2Model ----------------------------
(***************************************************************************)
(* EduFin synthetic portfolio generator                                    *)
(* (src/EduFin_SQL_V2_Collection_Strategy/SQL_V2_data_Code_5Lakh.py).      *)
(*                                                                         *)
(* main() runs nine create_* generators one after the other; each builds  *)
(* its rows in memory, saves them to the catalog with mode("overwrite")   *)
(* and returns.  The record counts are the program's own (500,000          *)
(* customers, 400,000 loans, 350,000 rows elsewhere).  A table too large  *)
(* to enumerate is held as its row count and the list of id intervals it  *)
(* holds, one batch (or one progress checkpoint) is one step, and the     *)
(* variable row holds one arbitrary row of the batch just generated, so   *)
(* a property of row in every reachable state is a property of every row. *)
(* Random draws are nondeterministic choices over the end points and some *)
(* interior points of the drawn range.  Dates are day ordinals, as        *)
(* datetime.date.toordinal() gives them.                                   *)
(***************************************************************************)
EXTENDS Integers, Sequences, FiniteSets, TLC

\* ------------------------------------------------------------------------
\* Program constants
\* ------------------------------------------------------------------------
CUSTOMER_RECORDS == 500000

OTHER_TABLE_RECORDS == 350000

BATCH_SIZE == 10000

LOAN_RECORDS == 400000

\* The literal upper end of random.randint(1, 400000) in create_payments.
PAYMENT_LOAN_ID_MAX == 400000

\* The literal upper end of random.randint(1, 400000) in
\* create_defaults_collections.
DEFAULT_LOAN_ID_MAX == 400000

\* Progress is logged when the row count is a multiple of 50000; the loops
\* that are not batched are stepped one such checkpoint at a time.
PROGRESS_EVERY == 50000

INDIAN_STATES ==
  << [state_name |-> "Andhra Pradesh", region |-> "South"],
     [state_name |-> "Arunachal Pradesh", region |-> "Northeast"],
     [state_name |-> "Assam", region |-> "Northeast"],
     [state_name |-> "Bihar", region |-> "East"],
     [state_name |-> "Chhattisgarh", region |-> "Central"],
     [state_name |-> "Goa", region |-> "West"],
     [state_name |-> "Gujarat", region |-> "West"],
     [state_name |-> "Haryana", region |-> "North"],
     [state_name |-> "Himachal Pradesh", region |-> "North"],
     [state_name |-> "Jharkhand", region |-> "East"],
     [state_name |-> "Karnataka", region |-> "South"],
     [state_name |-> "Kerala", region |-> "South"],
     [state_name |-> "Madhya Pradesh", region |-> "Central"],
     [state_name |-> "Maharashtra", region |-> "West"],
     [state_name |-> "Manipur", region |-> "Northeast"],
     [state_name |-> "Meghalaya", region |-> "Northeast"],
     [state_name |-> "Mizoram", region |-> "Northeast"],
     [state_name |-> "Nagaland", region |-> "Northeast"],
     [state_name |-> "Odisha", region |-> "East"],
     [state_name |-> "Punjab", region |-> "North"],
     [state_name |-> "Rajasthan", region |-> "North"],
     [state_name |-> "Sikkim", region |-> "Northeast"],
     [state_name |-> "Tamil Nadu", region |-> "South"],
     [state_name |-> "Telangana", region |-> "South"],
     [state_name |-> "Tripura", region |-> "Northeast"],
     [state_name |-> "Uttar Pradesh", region |-> "North"],
     [state_name |-> "Uttarakhand", region |-> "North"],
     [state_name |-> "West Bengal", region |-> "East"] >>

INDIAN_CITIES ==
  << [city_name |-> "Visakhapatnam", state_name |-> "Andhra Pradesh", tier |-> "Tier2"],
     [city_name |-> "Vijayawada", state_name |-> "Andhra Pradesh", tier |-> "Tier2"],
     [city_name |-> "Guntur", state_name |-> "Andhra Pradesh", tier |-> "Tier3"],
     [city_name |-> "Tirupati", state_name |-> "Andhra Pradesh", tier |-> "Tier2"],
     [city_name |-> "Kurnool", state_name |-> "Andhra Pradesh", tier |-> "Tier3"],
     [city_name |-> "Nellore", state_name |-> "Andhra Pradesh", tier |-> "Tier3"],
     [city_name |-> "Rajahmundry", state_name |-> "Andhra Pradesh", tier |-> "Tier3"],
     [city_name |-> "Anantapur", state_name |-> "Andhra Pradesh", tier |-> "Tier3"],
     [city_name |-> "Kadapa", state_name |-> "Andhra Pradesh", tier |-> "Tier3"],
     [city_name |-> "Chittoor", state_name |-> "Andhra Pradesh", tier |-> "Tier3"],
     [city_name |-> "Eluru", state_name |-> "Andhra Pradesh", tier |-> "Tier3"],
     [city_name |-> "Srikakulam", state_name |-> "Andhra Pradesh", tier |-> "Tier3"],
     [city_name |-> "Ongole", state_name |-> "Andhra Pradesh", tier |-> "Tier3"],
     [city_name |-> "Proddatur", state_name |-> "Andhra Pradesh", tier |-> "Tier3"],
     [city_name |-> "Nandyal", state_name |-> "Andhra Pradesh", tier |-> "Tier3"],
     [city_name |-> "Kakinada", state_name |-> "Andhra Pradesh", tier |-> "Tier3"],
     [city_name |-> "Bapatla", state_name |-> "Andhra Pradesh", tier |-> "Tier3"],
     [city_name |-> "Tenali", state_name |-> "Andhra Pradesh", tier |-> "Tier3"],
     [city_name |-> "Bhimavaram", state_name |-> "Andhra Pradesh", tier |-> "Tier3"],
     [city_name |-> "Amalapuram", state_name |-> "Andhra Pradesh", tier |-> "Tier3"],
     [city_name |-> "Itanagar", state_name |-> "Arunachal Pradesh", tier |-> "Tier3"],
     [city_name |-> "Tawang", state_name |-> "Arunachal Pradesh", tier |-> "Tier3"],
     [city_name |-> "Ziro", state_name |-> "Arunachal Pradesh", tier |-> "Tier3"],
     [city_name |-> "Pasighat", state_name |-> "Arunachal Pradesh", tier |-> "Tier3"],
     [city_name |-> "Naharlagun", state_name |-> "Arunachal Pradesh", tier |-> "Tier3"],
     [city_name |-> "Roing", state_name |-> "Arunachal Pradesh", tier |-> "Tier3"],
     [city_name |-> "Tezu", state_name |-> "Arunachal Pradesh", tier |-> "Tier3"],
     [city_name |-> "Namsai", state_name |-> "Arunachal Pradesh", tier |-> "Tier3"],
     [city_name |-> "Aalo", state_name |-> "Arunachal Pradesh", tier |-> "Tier3"],
     [city_name |-> "Bomdila", state_name |-> "Arunachal Pradesh", tier |-> "Tier3"],
     [city_name |-> "Seppa", state_name |-> "Arunachal Pradesh", tier |-> "Tier3"],
     [city_name |-> "Yingkiong", state_name |-> "Arunachal Pradesh", tier |-> "Tier3"],
     [city_name |-> "Changlang", state_name |-> "Arunachal Pradesh", tier |-> "Tier3"],
     [city_name |-> "Guwahati", state_name |-> "Assam", tier |-> "Tier2"],
     [city_name |-> "Dibrugarh", state_name |-> "Assam", tier |-> "Tier3"],
     [city_name |-> "Jorhat", state_name |-> "Assam", tier |-> "Tier3"],
     [city_name |-> "Nagaon", state_name |-> "Assam", tier |-> "Tier3"],
     [city_name |-> "Silchar", state_name |-> "Assam", tier |-> "Tier3"],
     [city_name |-> "Tinsukia", state_name |-> "Assam", tier |-> "Tier3"],
     [city_name |-> "Bongaigaon", state_name |-> "Assam", tier |-> "Tier3"],
     [city_name |-> "Barpeta", state_name |-> "Assam", tier |-> "Tier3"],
     [city_name |-> "Tezpur", state_name |-> "Assam", tier |-> "Tier3"],
     [city_name |-> "Sivasagar", state_name |-> "Assam", tier |-> "Tier3"],
     [city_name |-> "Nalbari", state_name |-> "Assam", tier |-> "Tier3"],
     [city_name |-> "Dhemaji", state_name |-> "Assam", tier |-> "Tier3"],
     [city_name |-> "Goalpara", state_name |-> "Assam", tier |-> "Tier3"],
     [city_name |-> "Patna", state_name |-> "Bihar", tier |-> "Tier2"],
     [city_name |-> "Gaya", state_name |-> "Bihar", tier |-> "Tier3"],
     [city_name |-> "Bhagalpur", state_name |-> "Bihar", tier |-> "Tier3"],
     [city_name |-> "Muzaffarpur", state_name |-> "Bihar", tier |-> "Tier3"],
     [city_name |-> "Darbhanga", state_name |-> "Bihar", tier |-> "Tier3"],
     [city_name |-> "Munger", state_name |-> "Bihar", tier |-> "Tier3"],
     [city_name |-> "Begusarai", state_name |-> "Bihar", tier |-> "Tier3"],
     [city_name |-> "Purnia", state_name |-> "Bihar", tier |-> "Tier3"],
     [city_name |-> "Arrah", state_name |-> "Bihar", tier |-> "Tier3"],
     [city_name |-> "Siwan", state_name |-> "Bihar", tier |-> "Tier3"],
     [city_name |-> "Samastipur", state_name |-> "Bihar", tier |-> "Tier3"],
     [city_name |-> "Nalanda", state_name |-> "Bihar", tier |-> "Tier3"],
     [city_name |-> "Buxar", state_name |-> "Bihar", tier |-> "Tier3"],
     [city_name |-> "Raipur", state_name |-> "Chhattisgarh", tier |-> "Tier2"],
     [city_name |-> "Bhilai", state_name |-> "Chhattisgarh", tier |-> "Tier3"],
     [city_name |-> "Bilaspur", state_name |-> "Chhattisgarh", tier |-> "Tier3"],
     [city_name |-> "Korba", state_name |-> "Chhattisgarh", tier |-> "Tier3"],
     [city_name |-> "Durg", state_name |-> "Chhattisgarh", tier |-> "Tier3"],
     [city_name |-> "Rajnandgaon", state_name |-> "Chhattisgarh", tier |-> "Tier3"],
     [city_name |-> "Raigarh", state_name |-> "Chhattisgarh", tier |-> "Tier3"],
     [city_name |-> "Jagdalpur", state_name |-> "Chhattisgarh", tier |-> "Tier3"],
     [city_name |-> "Ambikapur", state_name |-> "Chhattisgarh", tier |-> "Tier3"],
     [city_name |-> "Dhamtari", state_name |-> "Chhattisgarh", tier |-> "Tier3"],
     [city_name |-> "Panaji", state_name |-> "Goa", tier |-> "Tier3"],
     [city_name |-> "Vasco da Gama", state_name |-> "Goa", tier |-> "Tier3"],
     [city_name |-> "Margao", state_name |-> "Goa", tier |-> "Tier3"],
     [city_name |-> "Mapusa", state_name |-> "Goa", tier |-> "Tier3"],
     [city_name |-> "Ponda", state_name |-> "Goa", tier |-> "Tier3"],
     [city_name |-> "Bicholim", state_name |-> "Goa", tier |-> "Tier3"],
     [city_name |-> "Ahmedabad", state_name |-> "Gujarat", tier |-> "Tier1"],
     [city_name |-> "Surat", state_name |-> "Gujarat", tier |-> "Tier1"],
     [city_name |-> "Vadodara", state_name |-> "Gujarat", tier |-> "Tier2"],
     [city_name |-> "Rajkot", state_name |-> "Gujarat", tier |-> "Tier2"],
     [city_name |-> "Gandhinagar", state_name |-> "Gujarat", tier |-> "Tier3"],
     [city_name |-> "Bhavnagar", state_name |-> "Gujarat", tier |-> "Tier3"],
     [city_name |-> "Jamnagar", state_name |-> "Gujarat", tier |-> "Tier3"],
     [city_name |-> "Junagadh", state_name |-> "Gujarat", tier |-> "Tier3"],
     [city_name |-> "Anand", state_name |-> "Gujarat", tier |-> "Tier3"],
     [city_name |-> "Nadiad", state_name |-> "Gujarat", tier |-> "Tier3"],
     [city_name |-> "Valsad", state_name |-> "Gujarat", tier |-> "Tier3"],
     [city_name |-> "Bharuch", state_name |-> "Gujarat", tier |-> "Tier3"],
     [city_name |-> "Porbandar", state_name |-> "Gujarat", tier |-> "Tier3"],
     [city_name |-> "Patan", state_name |-> "Gujarat", tier |-> "Tier3"],
     [city_name |-> "Faridabad", state_name |-> "Haryana", tier |-> "Tier1"],
     [city_name |-> "Gurgaon", state_name |-> "Haryana", tier |-> "Tier1"],
     [city_name |-> "Ambala", state_name |-> "Haryana", tier |-> "Tier3"],
     [city_name |-> "Hisar", state_name |-> "Haryana", tier |-> "Tier3"],
     [city_name |-> "Panipat", state_name |-> "Haryana", tier |-> "Tier3"],
     [city_name |-> "Rohtak", state_name |-> "Haryana", tier |-> "Tier3"],
     [city_name |-> "Karnal", state_name |-> "Haryana", tier |-> "Tier3"],
     [city_name |-> "Sonipat", state_name |-> "Haryana", tier |-> "Tier3"],
     [city_name |-> "Yamunanagar", state_name |-> "Haryana", tier |-> "Tier3"],
     [city_name |-> "Sirsa", state_name |-> "Haryana", tier |-> "Tier3"],
     [city_name |-> "Shimla", state_name |-> "Himachal Pradesh", tier |-> "Tier3"],
     [city_name |-> "Dharamshala", state_name |-> "Himachal Pradesh", tier |-> "Tier3"],
     [city_name |-> "Manali", state_name |-> "Himachal Pradesh", tier |-> "Tier3"],
     [city_name |-> "Solan", state_name |-> "Himachal Pradesh", tier |-> "Tier3"],
     [city_name |-> "Kullu", state_name |-> "Himachal Pradesh", tier |-> "Tier3"],
     [city_name |-> "Mandi", state_name |-> "Himachal Pradesh", tier |-> "Tier3"],
     [city_name |-> "Nahan", state_name |-> "Himachal Pradesh", tier |-> "Tier3"],
     [city_name |-> "Palampur", state_name |-> "Himachal Pradesh", tier |-> "Tier3"],
     [city_name |-> "Bilaspur", state_name |-> "Himachal Pradesh", tier |-> "Tier3"],
     [city_name |-> "Hamirpur", state_name |-> "Himachal Pradesh", tier |-> "Tier3"],
     [city_name |-> "Ranchi", state_name |-> "Jharkhand", tier |-> "Tier2"],
     [city_name |-> "Jamshedpur", state_name |-> "Jharkhand", tier |-> "Tier2"],
     [city_name |-> "Dhanbad", state_name |-> "Jharkhand", tier |-> "Tier3"],
     [city_name |-> "Bokaro Steel City", state_name |-> "Jharkhand", tier |-> "Tier3"],
     [city_name |-> "Hazaribagh", state_name |-> "Jharkhand", tier |-> "Tier3"],
     [city_name |-> "Deoghar", state_name |-> "Jharkhand", tier |-> "Tier3"],
     [city_name |-> "Dumka", state_name |-> "Jharkhand", tier |-> "Tier3"],
     [city_name |-> "Giridih", state_name |-> "Jharkhand", tier |-> "Tier3"],
     [city_name |-> "Chaibasa", state_name |-> "Jharkhand", tier |-> "Tier3"],
     [city_name |-> "Bengaluru", state_name |-> "Karnataka", tier |-> "Tier1"],
     [city_name |-> "Mysuru", state_name |-> "Karnataka", tier |-> "Tier2"],
     [city_name |-> "Mangaluru", state_name |-> "Karnataka", tier |-> "Tier2"],
     [city_name |-> "Hubballi", state_name |-> "Karnataka", tier |-> "Tier3"],
     [city_name |-> "Belagavi", state_name |-> "Karnataka", tier |-> "Tier3"],
     [city_name |-> "Davangere", state_name |-> "Karnataka", tier |-> "Tier3"],
     [city_name |-> "Ballari", state_name |-> "Karnataka", tier |-> "Tier3"],
     [city_name |-> "Tumakuru", state_name |-> "Karnataka", tier |-> "Tier3"],
     [city_name |-> "Udupi", state_name |-> "Karnataka", tier |-> "Tier3"],
     [city_name |-> "Chikkamagaluru", state_name |-> "Karnataka", tier |-> "Tier3"],
     [city_name |-> "Thiruvananthapuram", state_name |-> "Kerala", tier |-> "Tier2"],
     [city_name |-> "Kochi", state_name |-> "Kerala", tier |-> "Tier1"],
     [city_name |-> "Kozhikode", state_name |-> "Kerala", tier |-> "Tier2"],
     [city_name |-> "Thrissur", state_name |-> "Kerala", tier |-> "Tier3"],
     [city_name |-> "Kollam", state_name |-> "Kerala", tier |-> "Tier3"],
     [city_name |-> "Kannur", state_name |-> "Kerala", tier |-> "Tier3"],
     [city_name |-> "Alappuzha", state_name |-> "Kerala", tier |-> "Tier3"],
     [city_name |-> "Palakkad", state_name |-> "Kerala", tier |-> "Tier3"],
     [city_name |-> "Kottayam", state_name |-> "Kerala", tier |-> "Tier3"],
     [city_name |-> "Malappuram", state_name |-> "Kerala", tier |-> "Tier3"],
     [city_name |-> "Bhopal", state_name |-> "Madhya Pradesh", tier |-> "Tier2"],
     [city_name |-> "Indore", state_name |-> "Madhya Pradesh", tier |-> "Tier1"],
     [city_name |-> "Gwalior", state_name |-> "Madhya Pradesh", tier |-> "Tier2"],
     [city_name |-> "Jabalpur", state_name |-> "Madhya Pradesh", tier |-> "Tier2"],
     [city_name |-> "Ujjain", state_name |-> "Madhya Pradesh", tier |-> "Tier3"],
     [city_name |-> "Sagar", state_name |-> "Madhya Pradesh", tier |-> "Tier3"],
     [city_name |-> "Rewa", state_name |-> "Madhya Pradesh", tier |-> "Tier3"],
     [city_name |-> "Satna", state_name |-> "Madhya Pradesh", tier |-> "Tier3"],
     [city_name |-> "Khandwa", state_name |-> "Madhya Pradesh", tier |-> "Tier3"],
     [city_name |-> "Burhanpur", state_name |-> "Madhya Pradesh", tier |-> "Tier3"],
     [city_name |-> "Mumbai", state_name |-> "Maharashtra", tier |-> "Tier1"],
     [city_name |-> "Pune", state_name |-> "Maharashtra", tier |-> "Tier1"],
     [city_name |-> "Nagpur", state_name |-> "Maharashtra", tier |-> "Tier1"],
     [city_name |-> "Nashik", state_name |-> "Maharashtra", tier |-> "Tier2"],
     [city_name |-> "Aurangabad", state_name |-> "Maharashtra", tier |-> "Tier2"],
     [city_name |-> "Thane", state_name |-> "Maharashtra", tier |-> "Tier1"],
     [city_name |-> "Solapur", state_name |-> "Maharashtra", tier |-> "Tier2"],
     [city_name |-> "Kolhapur", state_name |-> "Maharashtra", tier |-> "Tier3"],
     [city_name |-> "Amravati", state_name |-> "Maharashtra", tier |-> "Tier3"],
     [city_name |-> "Jalgaon", state_name |-> "Maharashtra", tier |-> "Tier3"],
     [city_name |-> "Nanded", state_name |-> "Maharashtra", tier |-> "Tier3"],
     [city_name |-> "Sangli", state_name |-> "Maharashtra", tier |-> "Tier3"],
     [city_name |-> "Akola", state_name |-> "Maharashtra", tier |-> "Tier3"],
     [city_name |-> "Chandrapur", state_name |-> "Maharashtra", tier |-> "Tier3"],
     [city_name |-> "Parbhani", state_name |-> "Maharashtra", tier |-> "Tier3"],
     [city_name |-> "Imphal", state_name |-> "Manipur", tier |-> "Tier3"],
     [city_name |-> "Thoubal", state_name |-> "Manipur", tier |-> "Tier3"],
     [city_name |-> "Kakching", state_name |-> "Manipur", tier |-> "Tier3"],
     [city_name |-> "Bishnupur", state_name |-> "Manipur", tier |-> "Tier3"],
     [city_name |-> "Churachandpur", state_name |-> "Manipur", tier |-> "Tier3"],
     [city_name |-> "Shillong", state_name |-> "Meghalaya", tier |-> "Tier3"],
     [city_name |-> "Tura", state_name |-> "Meghalaya", tier |-> "Tier3"],
     [city_name |-> "Jowai", state_name |-> "Meghalaya", tier |-> "Tier3"],
     [city_name |-> "Nongpoh", state_name |-> "Meghalaya", tier |-> "Tier3"],
     [city_name |-> "Williamnagar", state_name |-> "Meghalaya", tier |-> "Tier3"],
     [city_name |-> "Aizawl", state_name |-> "Mizoram", tier |-> "Tier3"],
     [city_name |-> "Lunglei", state_name |-> "Mizoram", tier |-> "Tier3"],
     [city_name |-> "Champhai", state_name |-> "Mizoram", tier |-> "Tier3"],
     [city_name |-> "Kolasib", state_name |-> "Mizoram", tier |-> "Tier3"],
     [city_name |-> "Serchhip", state_name |-> "Mizoram", tier |-> "Tier3"],
     [city_name |-> "Kohima", state_name |-> "Nagaland", tier |-> "Tier3"],
     [city_name |-> "Dimapur", state_name |-> "Nagaland", tier |-> "Tier3"],
     [city_name |-> "Mokokchung", state_name |-> "Nagaland", tier |-> "Tier3"],
     [city_name |-> "Wokha", state_name |-> "Nagaland", tier |-> "Tier3"],
     [city_name |-> "Zunheboto", state_name |-> "Nagaland", tier |-> "Tier3"],
     [city_name |-> "Bhubaneswar", state_name |-> "Odisha", tier |-> "Tier2"],
     [city_name |-> "Cuttack", state_name |-> "Odisha", tier |-> "Tier2"],
     [city_name |-> "Rourkela", state_name |-> "Odisha", tier |-> "Tier3"],
     [city_name |-> "Berhampur", state_name |-> "Odisha", tier |-> "Tier3"],
     [city_name |-> "Sambalpur", state_name |-> "Odisha", tier |-> "Tier3"],
     [city_name |-> "Balasore", state_name |-> "Odisha", tier |-> "Tier3"],
     [city_name |-> "Jharsuguda", state_name |-> "Odisha", tier |-> "Tier3"],
     [city_name |-> "Amritsar", state_name |-> "Punjab", tier |-> "Tier2"],
     [city_name |-> "Ludhiana", state_name |-> "Punjab", tier |-> "Tier2"],
     [city_name |-> "Jalandhar", state_name |-> "Punjab", tier |-> "Tier2"],
     [city_name |-> "Patiala", state_name |-> "Punjab", tier |-> "Tier3"],
     [city_name |-> "Bathinda", state_name |-> "Punjab", tier |-> "Tier3"],
     [city_name |-> "Mohali", state_name |-> "Punjab", tier |-> "Tier2"],
     [city_name |-> "Hoshiarpur", state_name |-> "Punjab", tier |-> "Tier3"],
     [city_name |-> "Moga", state_name |-> "Punjab", tier |-> "Tier3"],
     [city_name |-> "Jaipur", state_name |-> "Rajasthan", tier |-> "Tier1"],
     [city_name |-> "Jodhpur", state_name |-> "Rajasthan", tier |-> "Tier2"],
     [city_name |-> "Udaipur", state_name |-> "Rajasthan", tier |-> "Tier2"],
     [city_name |-> "Kota", state_name |-> "Rajasthan", tier |-> "Tier2"],
     [city_name |-> "Ajmer", state_name |-> "Rajasthan", tier |-> "Tier3"],
     [city_name |-> "Bikaner", state_name |-> "Rajasthan", tier |-> "Tier3"],
     [city_name |-> "Alwar", state_name |-> "Rajasthan", tier |-> "Tier3"],
     [city_name |-> "Chittorgarh", state_name |-> "Rajasthan", tier |-> "Tier3"],
     [city_name |-> "Pali", state_name |-> "Rajasthan", tier |-> "Tier3"],
     [city_name |-> "Sikar", state_name |-> "Rajasthan", tier |-> "Tier3"],
     [city_name |-> "Gangtok", state_name |-> "Sikkim", tier |-> "Tier3"],
     [city_name |-> "Namchi", state_name |-> "Sikkim", tier |-> "Tier3"],
     [city_name |-> "Mangan", state_name |-> "Sikkim", tier |-> "Tier3"],
     [city_name |-> "Chennai", state_name |-> "Tamil Nadu", tier |-> "Tier1"],
     [city_name |-> "Coimbatore", state_name |-> "Tamil Nadu", tier |-> "Tier1"],
     [city_name |-> "Madurai", state_name |-> "Tamil Nadu", tier |-> "Tier2"],
     [city_name |-> "Tiruchirappalli", state_name |-> "Tamil Nadu", tier |-> "Tier2"],
     [city_name |-> "Salem", state_name |-> "Tamil Nadu", tier |-> "Tier2"],
     [city_name |-> "Tirunelveli", state_name |-> "Tamil Nadu", tier |-> "Tier3"],
     [city_name |-> "Erode", state_name |-> "Tamil Nadu", tier |-> "Tier3"],
     [city_name |-> "Vellore", state_name |-> "Tamil Nadu", tier |-> "Tier3"],
     [city_name |-> "Dindigul", state_name |-> "Tamil Nadu", tier |-> "Tier3"],
     [city_name |-> "Hyderabad", state_name |-> "Telangana", tier |-> "Tier1"],
     [city_name |-> "Warangal", state_name |-> "Telangana", tier |-> "Tier2"],
     [city_name |-> "Khammam", state_name |-> "Telangana", tier |-> "Tier3"],
     [city_name |-> "Karimnagar", state_name |-> "Telangana", tier |-> "Tier3"],
     [city_name |-> "Nizamabad", state_name |-> "Telangana", tier |-> "Tier3"],
     [city_name |-> "Mahabubnagar", state_name |-> "Telangana", tier |-> "Tier3"],
     [city_name |-> "Agartala", state_name |-> "Tripura", tier |-> "Tier3"],
     [city_name |-> "Kailashahar", state_name |-> "Tripura", tier |-> "Tier3"],
     [city_name |-> "Udaipur", state_name |-> "Tripura", tier |-> "Tier3"],
     [city_name |-> "Belonia", state_name |-> "Tripura", tier |-> "Tier3"],
     [city_name |-> "Lucknow", state_name |-> "Uttar Pradesh", tier |-> "Tier1"],
     [city_name |-> "Kanpur", state_name |-> "Uttar Pradesh", tier |-> "Tier1"],
     [city_name |-> "Varanasi", state_name |-> "Uttar Pradesh", tier |-> "Tier2"],
     [city_name |-> "Agra", state_name |-> "Uttar Pradesh", tier |-> "Tier2"],
     [city_name |-> "Allahabad", state_name |-> "Uttar Pradesh", tier |-> "Tier2"],
     [city_name |-> "Ghaziabad", state_name |-> "Uttar Pradesh", tier |-> "Tier1"],
     [city_name |-> "Meerut", state_name |-> "Uttar Pradesh", tier |-> "Tier2"],
     [city_name |-> "Noida", state_name |-> "Uttar Pradesh", tier |-> "Tier1"],
     [city_name |-> "Bareilly", state_name |-> "Uttar Pradesh", tier |-> "Tier3"],
     [city_name |-> "Aligarh", state_name |-> "Uttar Pradesh", tier |-> "Tier3"],
     [city_name |-> "Dehradun", state_name |-> "Uttarakhand", tier |-> "Tier2"],
     [city_name |-> "Haridwar", state_name |-> "Uttarakhand", tier |-> "Tier3"],
     [city_name |-> "Nainital", state_name |-> "Uttarakhand", tier |-> "Tier3"],
     [city_name |-> "Roorkee", state_name |-> "Uttarakhand", tier |-> "Tier3"],
     [city_name |-> "Haldwani", state_name |-> "Uttarakhand", tier |-> "Tier3"],
     [city_name |-> "Kolkata", state_name |-> "West Bengal", tier |-> "Tier1"],
     [city_name |-> "Darjeeling", state_name |-> "West Bengal", tier |-> "Tier3"],
     [city_name |-> "Siliguri", state_name |-> "West Bengal", tier |-> "Tier2"],
     [city_name |-> "Asansol", state_name |-> "West Bengal", tier |-> "Tier3"],
     [city_name |-> "Howrah", state_name |-> "West Bengal", tier |-> "Tier2"],
     [city_name |-> "Durgapur", state_name |-> "West Bengal", tier |-> "Tier3"],
     [city_name |-> "Kalyani", state_name |-> "West Bengal", tier |-> "Tier3"] >>

\* ------------------------------------------------------------------------
\* Helpers
\* ------------------------------------------------------------------------
Min(a, b) == IF a <= b THEN a ELSE b

Max(a, b) == IF a >= b THEN a ELSE b

\* The calls of main() with create_payments placed before create_loans.
TABLES_PaymentsFirst ==
  << "dim_state", "dim_city", "customers", "institutions", "payments",
     "loans", "defaults_collections", "geographic_demographics",
     "economic_indicators" >>

\* The nine tables in the order main() generates them.
TABLES ==
  << "dim_state", "dim_city", "customers", "institutions", "loans",
     "payments", "defaults_collections", "geographic_demographics",
     "economic_indicators" >>

\* A table of the catalog that this program never names.
OTHER_TABLE == "audit_log"

CatalogNames == {TABLES[k] : k \in 1..Len(TABLES)} \cup {OTHER_TABLE}

\* A table's content: who wrote it, how many rows, the id intervals of its
\* rows in row order (adjacent intervals merged), and, for the two small
\* dimension tables, the rows themselves.
NoTable == [run |-> "none", n |-> 0, ids |-> << >>, rows |-> << >>]

EmptyBuf == [run |-> "this", n |-> 0, ids |-> << >>, rows |-> << >>]

\* What an earlier run, or another program, may have left under a name.
OldTable(n) == [run |-> "old", n |-> n, ids |-> << <<1, n>> >>, rows |-> << >>]

\* list.append of the rows with ids a..b (b - a + 1 rows, ids ascending by 1).
AddIds(ids, a, b) ==
  IF b < a THEN ids
  ELSE IF ids # << >> /\ ids[Len(ids)][2] + 1 = a
       THEN [ids EXCEPT ![Len(ids)] = <<ids[Len(ids)][1], b>>]
       ELSE Append(ids, <<a, b>>)

AddRows(b, first, last) ==
  [b EXCEPT !.n = b.n + Max(0, last - first + 1), !.ids = AddIds(b.ids, first, last)]

\* The ids of a table are exactly 1..n, each once, in row order.
Gapless(t, n) == t.n = n /\ t.ids = << <<1, n>> >>

\* ------------------------------------------------------------------------
\* 1. create_dim_state
\* ------------------------------------------------------------------------
\* enumerate(INDIAN_STATES) without the start of 1.
StateRows_FromZero ==
  [i \in 1..Len(INDIAN_STATES) |->
     [state_id |-> i - 1,
      state_name |-> INDIAN_STATES[i].state_name,
      region |-> INDIAN_STATES[i].region]]

\* enumerate(INDIAN_STATES, 1)
StateRows ==
  [i \in 1..Len(INDIAN_STATES) |->
     [state_id |-> i,
      state_name |-> INDIAN_STATES[i].state_name,
      region |-> INDIAN_STATES[i].region]]

\* ------------------------------------------------------------------------
\* 2. create_dim_city
\* ------------------------------------------------------------------------
\* The lookup built from zero-based positions instead of the state_id column.
state_lookup_ZeroBased(state_df) ==
  [name \in {state_df[i].state_name : i \in 1..Len(state_df)} |->
     (CHOOSE i \in 1..Len(state_df) : state_df[i].state_name = name) - 1]

\* {row['state_name']: row['state_id'] for _, row in state_df.iterrows()}:
\* a later row of the same name replaces an earlier one.
state_lookup(state_df) ==
  [name \in {state_df[i].state_name : i \in 1..Len(state_df)} |->
     LET last == CHOOSE i \in 1..Len(state_df) :
                   /\ state_df[i].state_name = name
                   /\ \A j \in 1..Len(state_df) :
                        state_df[j].state_name = name => j <= i
     IN state_df[last].state_id]

\* state_lookup[city_info['state_name']] raises KeyError for an unknown name.
LookupFails(state_df) ==
  \E i \in 1..Len(INDIAN_CITIES) :
     INDIAN_CITIES[i].state_name \notin DOMAIN state_lookup(state_df)

\* enumerate(INDIAN_CITIES, 1)
CityRows(state_df) ==
  [i \in 1..Len(INDIAN_CITIES) |->
     [city_id |-> i,
      city_name |-> INDIAN_CITIES[i].city_name,
      state_id |-> state_lookup(state_df)[INDIAN_CITIES[i].state_name],
      tier_classification |-> INDIAN_CITIES[i].tier]]

\* The ids of the rows of a dimension table, as id intervals in row order:
\* an interval starts at the first row and wherever an id is not the
\* id before it plus one.
RowIds(rows, key) ==
  LET n == Len(rows)
      starts == {k \in 1..n : k = 1 \/ rows[k][key] # rows[k - 1][key] + 1}
      nth(j) == CHOOSE s \in starts : Cardinality({t \in starts : t <= s}) = j
      stop(j) == IF j = Cardinality(starts) THEN n ELSE nth(j + 1) - 1
  IN [j \in 1..Cardinality(starts) |-> <<rows[nth(j)][key], rows[stop(j)][key]>>]

DimBuf(rows, key) ==
  [run |-> "this", n |-> Len(rows), ids |-> RowIds(rows, key), rows |-> rows]

\* ------------------------------------------------------------------------
\* Random draws
\* ------------------------------------------------------------------------
\* A draw is named by an integer v: the value drawn from lo..hi is v itself
\* when v is in the range, and the nearer end of the range otherwise, so
\* LOW and HIGH name the two ends of any range.
LOW == 0 - 2000000000

HIGH == 0 + 2000000000

Ends == {LOW, HIGH}

\* random.randint(lo, hi) raises ValueError when the range is empty.
RandIntEmpty(lo, hi) == hi < lo

\* random.randint(lo, hi): a value of lo..hi.
RandInt(lo, hi, v) == IF v < lo THEN lo ELSE IF v > hi THEN hi ELSE v

\* random.uniform(lo, hi), in the unit lo and hi are given in.
Uniform(lo, hi, v) == IF v < lo THEN lo ELSE IF v > hi THEN hi ELSE v

\* random.random(), in thousandths: a value of [0, 1).
Random(v) == IF v < 0 THEN 0 ELSE IF v > 999 THEN 999 ELSE v

\* random.choices(options, weights)[0] with every weight positive: any option.
Choice(options, k) == options[((k - 1) % Len(options)) + 1]

\* Amounts are held in thousandths of a rupee; round(x, 2) rounds to the
\* nearest hundredth, a tie to the even hundredth, and the stored value is in
\* hundredths.
Round2(x) ==
  LET q == x \div 10
      r == x % 10
  IN IF r < 5 THEN q
     ELSE IF r > 5 THEN q + 1
     ELSE IF q % 2 = 0 THEN q ELSE q + 1

\* amount * (pct / 100), pct a whole percentage, without leaving 32 bits.
MulPct(amount, pct) ==
  (amount \div 100) * pct + ((amount % 100) * pct) \div 100

\* ------------------------------------------------------------------------
\* 3./4. create_customers, create_institutions: one row
\* ------------------------------------------------------------------------
\* The batch runs to batch_start + B even past the target.
BatchEnd_NoClamp(batch_start, B, N) == batch_start + B

\* batch_end = min(batch_start + BATCH_SIZE, N)
BatchEnd(batch_start, B, N) == Min(batch_start + B, N)

\* customer_id = batch_start + i + 1
CustomerId(batch_start, i) == batch_start + i + 1

\* date.year of a day ordinal, as datetime computes it: cycles of 400, 100,
\* 4 and 1 years of 146097, 36524, 1461 and 365 days.
YearOf(ordinal) ==
  LET n == ordinal - 1
      n400 == n \div 146097
      r400 == n % 146097
      n100 == r400 \div 36524
      r100 == r400 % 36524
      n4 == r100 \div 1461
      r4 == r100 % 1461
      n1 == r4 \div 365
      year == n400 * 400 + n100 * 100 + n4 * 4 + n1 + 1
  IN IF n1 = 4 \/ n100 = 4 THEN year - 1 ELSE year

\* birth_day = random.randint(1, 31)
BirthDay_AnyDay(v) == RandInt(1, 31, v)

\* birth_day = random.randint(1, 28)
BirthDay(v) == RandInt(1, 28, v)

EmploymentTypes ==
  << "Private Employee", "Government Employee", "Self Employed",
     "Business Owner", "Student" >>

\* The Tier2 range used for every tier.
BaseIncomeRange_OneRange(tier) == <<400000, 1200000>>

\* The range of base_income for the tier of the city, in rupees.
BaseIncomeRange(tier) ==
  IF tier = "Tier1" THEN <<600000, 1800000>>
  ELSE IF tier = "Tier2" THEN <<400000, 1200000>>
  ELSE <<250000, 800000>>

\* The range of the employment multiplier, in hundredths.
MultiplierRange(employment_type) ==
  CASE employment_type = "Government Employee" -> <<80, 130>>
    [] employment_type = "Private Employee" -> <<60, 160>>
    [] employment_type = "Business Owner" -> <<100, 300>>
    [] employment_type = "Self Employed" -> <<40, 200>>
    [] employment_type = "Student" -> <<10, 40>>

\* The range of cibil_base, in thousandths of a point.
CibilBaseRange(employment_type) ==
  IF employment_type = "Government Employee" THEN <<650000, 850000>>
  ELSE IF employment_type = "Private Employee" THEN <<600000, 800000>>
  ELSE <<550000, 750000>>

\* int(min(900, max(300, cibil_base + (50 if annual_income > 1000000 else 0)))),
\* annual_income in hundredths of a rupee.
CustomerCibil(cibil_base, annual_income) ==
  Min(900000, Max(300000, cibil_base
                            + (IF annual_income > 100000000 THEN 50000 ELSE 0)))
    \div 1000

\* The draws of one pass of the row loop of create_customers.
CustomerDraws(ages, months, days, employments, baseIncomes, multipliers, cibilBases) ==
  [age : ages, birth_month : months, birth_day : days, employment : employments,
   base_income : baseIncomes, multiplier : multipliers, cibil_base : cibilBases]

\* base_income is in rupees and the multiplier in hundredths, so
\* annual_income is in hundredths of a rupee, the unit round(., 2) stores.
\* tier and base_income are locals of the loop, not columns.
CustomerRow(customer_id, city, current_year, d) ==
  LET tier == city.tier_classification
      age == RandInt(18, 30, d.age)
      birth_year == current_year - age
      employment_type == Choice(EmploymentTypes, d.employment)
      base_income == Uniform(BaseIncomeRange(tier)[1], BaseIncomeRange(tier)[2],
                             d.base_income)
      multiplier == Uniform(MultiplierRange(employment_type)[1],
                            MultiplierRange(employment_type)[2], d.multiplier)
      annual_income == base_income * multiplier
      cibil_base == Uniform(CibilBaseRange(employment_type)[1],
                            CibilBaseRange(employment_type)[2], d.cibil_base)
  IN [table |-> "customers",
      customer_id |-> customer_id,
      city_id |-> city.city_id,
      tier |-> tier,
      base_income |-> base_income,
      annual_income |-> annual_income,
      cibil_score |-> CustomerCibil(cibil_base, annual_income),
      employment_type |-> employment_type,
      date_of_birth |-> [year |-> birth_year,
                         month |-> RandInt(1, 12, d.birth_month),
                         day |-> BirthDay(d.birth_day)]]

\* institution_id = batch_start + i + 1
InstitutionId(batch_start, i) == batch_start + i + 1

InstitutionRow(institution_id, city) ==
  [table |-> "institutions",
   institution_id |-> institution_id,
   city_id |-> city.city_id,
   tier |-> city.tier_classification]

\* ------------------------------------------------------------------------
\* 5. create_loans
\* ------------------------------------------------------------------------
\* int(0.6 * LOAN_RECORDS): for every L up to 2,000,000 the double 0.6 * L
\* truncates to floor(6 L / 10).
customers_with_1_loan(L) == (6 * L) \div 10

\* The share the comment names (30 %) instead of the factor of the code.
customers_with_2_loans_ThirtyPercent(L) == (3 * L) \div 10

\* int(0.25 * LOAN_RECORDS)
customers_with_2_loans(L) == L \div 4

customers_with_3_loans(L) == L - customers_with_1_loan(L) - customers_with_2_loans(L)

\* The number of draws of each of the three loops that fill
\* customer_loan_pairs, and the entries each draw appends.
SingleDraws(L) == customers_with_1_loan(L)

\* One draw per loan of the pool instead of one per customer.
DoubleDraws_PerLoan(L) == customers_with_2_loans(L)

DoubleDraws(L) == customers_with_2_loans(L) \div 2

\* One draw per loan of the pool instead of one per customer.
TripleDraws_PerLoan(L) == customers_with_3_loans(L)

TripleDraws(L) == customers_with_3_loans(L) \div 3

\* len(customer_loan_pairs) before the slice [:LOAN_RECORDS].
PoolLen(L) == SingleDraws(L) + 2 * DoubleDraws(L) + 3 * TripleDraws(L)

\* customer_loan_pairs[:LOAN_RECORDS] keeps the first L entries, or all of a
\* shorter list.
SliceLen(n, L) == Min(n, L)

\* customer_id = random.randint(1, CUSTOMER_RECORDS)
PoolCustomerId(C, v) == RandInt(1, C, v)

\* The entries of a customer are appended only if the list does not hold the
\* customer yet.
Extend_Unique(pairs, customer_id, times) ==
  IF \E i \in 1..Len(pairs) : pairs[i] = customer_id THEN pairs
  ELSE pairs \o [k \in 1..times |-> customer_id]

\* customer_loan_pairs.append(customer_id) and
\* customer_loan_pairs.extend([customer_id] * times)
Extend(pairs, customer_id, times) == pairs \o [k \in 1..times |-> customer_id]

\* The institution drawn from the customers' range.
LoanInstitutionId_CustomerRange(v) == RandInt(1, CUSTOMER_RECORDS, v)

\* institution_id = random.randint(1, OTHER_TABLE_RECORDS)
LoanInstitutionId(v) == RandInt(1, OTHER_TABLE_RECORDS, v)

\* app_date, disbursement_date, maturity_date
LoanAppDate(current_date, days_back) == current_date - days_back

LoanDisbursementDate(app_date, delay) == app_date + delay

\* The tenure counted in years of 365 days instead of months of 30 days.
LoanMaturityDate_CalendarYears(disbursement_date, tenure_months) ==
  disbursement_date + (tenure_months \div 12) * 365

LoanMaturityDate(disbursement_date, tenure_months) ==
  disbursement_date + tenure_months * 30

\* base_amount + living_expenses, in thousandths of a rupee
LoanAmount(base, living) ==
  Uniform(150000000, 800000000, base) + Uniform(50000000, 250000000, living)

\* One range for every score, from a rate of 0.
InterestRateRange_FromZero(cibil_score) == <<0, 175000>>

\* The range of interest_rate for a score, in ten-thousandths of a percent.
InterestRateRange(cibil_score) ==
  IF cibil_score >= 750 THEN <<85000, 115000>>
  ELSE IF cibil_score >= 650 THEN <<105000, 140000>>
  ELSE <<125000, 175000>>

\* round(interest_rate, 2): from ten-thousandths to hundredths of a percent,
\* a tie to the even hundredth.
RoundRate(x) ==
  LET q == x \div 100
      r == x % 100
  IN IF r < 50 THEN q
     ELSE IF r > 50 THEN q + 1
     ELSE IF q % 2 = 0 THEN q ELSE q + 1

\* Rates and powers are held in units of 10^-8.
ONE == 10000 * 10000

\* a * b of two such numbers (or of an amount and such a number), truncated
\* to the unit, by halves of four digits so that no product leaves 32 bits.
\* The operands are taken as values (a function's arguments), so each is
\* computed once.
MulFix(a, b) ==
  LET Product[x \in Int, y \in Int] ==
        LET x1 == x \div 10000
            x0 == x % 10000
            y1 == y \div 10000
            y0 == y % 10000
        IN x1 * y1 + ((x1 * y0 + x0 * y1) + (x0 * y0) \div 10000) \div 10000
  IN Product[a, b]

\* q + rem / b times the factors ks, truncated: one factor at a time.
DivSteps(q, rem, b, ks) ==
  LET Steps[quot \in Int, r \in Int, d \in Int, k \in 0..Len(ks)] ==
        IF k = Len(ks) THEN quot
        ELSE Steps[quot * ks[k + 1] + (r * ks[k + 1]) \div d,
                   (r * ks[k + 1]) % d, d, k + 1]
  IN Steps[q, rem, b, 0]

\* a / b in units of 10^-8, truncated: 10^8 = 2^8 * 5^8.
DivFix(a, b) ==
  LET Quotient[x \in Int, y \in Int] ==
        DivSteps(x \div y, x % y, y,
                 <<2, 2, 2, 2, 2, 2, 2, 2, 5, 5, 5, 5, 5, 5, 5, 5>>)
  IN Quotient[a, b]

\* x ** n, by squaring
PowFix(x, n) ==
  LET Power[y \in Int, k \in Nat] ==
        IF k = 0 THEN ONE
        ELSE LET square == MulFix(Power[y, k \div 2], Power[y, k \div 2])
             IN IF k % 2 = 0 THEN square ELSE MulFix(square, y)
  IN Power[x, n]

\* monthly_rate = interest_rate / 100 / 12, from ten-thousandths of a percent
MonthlyRate(interest_rate) == (interest_rate * 25) \div 3

\* The EMI in thousandths of a rupee of an amount in thousandths:
\* P r (1 + r)^n / ((1 + r)^n - 1), or P / n when the rate is 0.  The
\* truncations keep the result within 0.04 rupees of the double the code
\* computes.
EmiAmount(loan_amount, interest_rate, tenure_months) ==
  LET Emi[P \in Int, monthly_rate \in Int, growth \in Int] ==
        IF monthly_rate > 0
        THEN MulFix(P, DivFix(MulFix(monthly_rate, growth), growth - ONE))
        ELSE P \div tenure_months
  IN Emi[loan_amount, MonthlyRate(interest_rate),
         PowFix(ONE + MonthlyRate(interest_rate), tenure_months)]

\* The elapsed days rounded to the nearest month of 30 days.
MonthsSince_Rounded(current_date, disbursement_date) ==
  Max(1, (current_date - disbursement_date + 15) \div 30)

\* max(1, (current_date - disbursement_date).days // 30)
MonthsSince(current_date, disbursement_date) ==
  Max(1, (current_date - disbursement_date) \div 30)

\* default_prob, in thousandths
DefaultProb(cibil_score) ==
  IF cibil_score < 600 THEN 80 + 150
  ELSE IF cibil_score < 700 THEN 80 + 80
  ELSE 80

\* The natural end of the loan checked before default and overdue.
LoanStatus_MaturityFirst(status_rand, cibil_score, months_since, tenure_months) ==
  IF months_since >= tenure_months THEN "Closed"
  ELSE IF status_rand < DefaultProb(cibil_score) THEN "Defaulted"
  ELSE IF status_rand < DefaultProb(cibil_score) + 60 THEN "Overdue"
  ELSE "Active"

\* status_rand in thousandths of [0, 1)
LoanStatus(status_rand, cibil_score, months_since, tenure_months) ==
  IF status_rand < DefaultProb(cibil_score) THEN "Defaulted"
  ELSE IF status_rand < DefaultProb(cibil_score) + 60 THEN "Overdue"
  ELSE IF months_since >= tenure_months THEN "Closed"
  ELSE "Active"

TenureOptions == <<36, 48, 60, 72, 84, 96>>

\* The draws of one pass of the row loop, in the order the code makes them.
LoanDraws(instPicks, baseAmounts, livings, cibils, rates, tenures, daysBack, delays, statusRands) ==
  [institution : instPicks, base_amount : baseAmounts, living_expenses : livings,
   cibil_score : cibils, interest_rate : rates, tenure : tenures,
   days_back : daysBack, delay : delays, status_rand : statusRands]

LoanRow(loan_id, customer_id, current_date, d) ==
  LET loan_amount == LoanAmount(d.base_amount, d.living_expenses)
      cibil_score == RandInt(300, 900, d.cibil_score)
      interest_rate == Uniform(InterestRateRange(cibil_score)[1],
                               InterestRateRange(cibil_score)[2], d.interest_rate)
      tenure_months == Choice(TenureOptions, d.tenure)
      emi_amount == EmiAmount(loan_amount, interest_rate, tenure_months)
      days_back == RandInt(60, 1460, d.days_back)
      app_date == LoanAppDate(current_date, days_back)
      disbursement_date == LoanDisbursementDate(app_date, RandInt(7, 45, d.delay))
      maturity_date == LoanMaturityDate(disbursement_date, tenure_months)
      months_since == MonthsSince(current_date, disbursement_date)
      status_rand == Random(d.status_rand)
  IN [table |-> "loans",
      loan_id |-> loan_id,
      customer_id |-> customer_id,
      institution_id |-> LoanInstitutionId(d.institution),
      loan_amount |-> Round2(loan_amount),
      interest_rate |-> RoundRate(interest_rate),
      emi_amount |-> Round2(emi_amount),
      loan_status |-> LoanStatus(status_rand, cibil_score, months_since, tenure_months),
      loan_tenure_months |-> tenure_months,
      application_date |-> app_date,
      disbursement_date |-> disbursement_date,
      maturity_date |-> maturity_date]

\* ------------------------------------------------------------------------
\* 6. create_payments: one row
\* ------------------------------------------------------------------------
\* loan_id = random.randint(1, 400000)
PaymentLoanId(v) == RandInt(1, PAYMENT_LOAN_ID_MAX, v)

\* payment_amount in thousandths of a rupee: 5 % of the payments are partial.
PaymentAmount(d) ==
  LET base_emi == Uniform(5000000, 50000000, d.base_emi)
      payment_amount ==
        IF Random(d.partial_rand) < 50
        THEN MulPct(base_emi, Uniform(30, 80, d.partial_factor))
        ELSE base_emi + Uniform(0 - 500000, 500000, d.adjust)
  IN Max(1000000, payment_amount)

\* 'Success' if random.random() < 0.92 else random.choice(['Failed', 'Pending'])
PaymentStatus(d) ==
  IF Random(d.status_rand) < 920 THEN "Success"
  ELSE Choice(<< "Failed", "Pending" >>, d.status_pick)

\* The draws of one pass of the row loop of create_payments.
PaymentDraws(loanPicks, daysBack, baseEmis, partialRands, factors, adjusts, statusRands, statusPicks, shares, lateRands, lateFees) ==
  [loan : loanPicks, days_back : daysBack, base_emi : baseEmis,
   partial_rand : partialRands, partial_factor : factors, adjust : adjusts,
   status_rand : statusRands, status_pick : statusPicks,
   interest_share : shares, late_rand : lateRands, late_fee : lateFees]

\* amount * pm / 1000, truncated, without leaving 32 bits.
MulPerMille(amount, pm) ==
  (amount \div 1000) * pm + ((amount % 1000) * pm) \div 1000

\* The components computed whatever the status.
PaymentComponents_AnyStatus(payment_status, payment_amount, d) ==
  LET interest_component == MulPerMille(payment_amount,
                                        Uniform(300, 700, d.interest_share))
  IN [interest_component |-> interest_component,
      principal_component |-> payment_amount - interest_component,
      late_fee |-> IF Random(d.late_rand) < 80
                   THEN Uniform(0, 1000000, d.late_fee) ELSE 0]

\* if payment_status == 'Success': interest = amount * uniform(0.3, 0.7),
\* principal = amount - interest, a late fee up to 1000 with probability
\* 0.08; else all three are 0.  In thousandths of a rupee, the share in
\* thousandths.
PaymentComponents(payment_status, payment_amount, d) ==
  IF payment_status = "Success"
  THEN LET interest_component == MulPerMille(payment_amount,
                                             Uniform(300, 700, d.interest_share))
       IN [interest_component |-> interest_component,
           principal_component |-> payment_amount - interest_component,
           late_fee |-> IF Random(d.late_rand) < 80
                        THEN Uniform(0, 1000000, d.late_fee) ELSE 0]
  ELSE [interest_component |-> 0, principal_component |-> 0, late_fee |-> 0]

PaymentRow(i, current_date, d) ==
  LET components == PaymentComponents(PaymentStatus(d), PaymentAmount(d), d)
  IN [table |-> "payments",
      payment_id |-> i,
      loan_id |-> PaymentLoanId(d.loan),
      payment_date |-> current_date - RandInt(1, 730, d.days_back),
      payment_amount |-> Round2(PaymentAmount(d)),
      payment_status |-> PaymentStatus(d),
      late_fee |-> Round2(components.late_fee),
      principal_component |-> Round2(components.principal_component),
      interest_component |-> Round2(components.interest_component)]

\* ------------------------------------------------------------------------
\* 7. create_defaults_collections: one row
\* ------------------------------------------------------------------------
\* customer_id = random.randint(1, CUSTOMER_RECORDS)
DefaultCustomerId(v) == RandInt(1, CUSTOMER_RECORDS, v)

\* loan_id = random.randint(1, 400000)
DefaultLoanId(v) == RandInt(1, DEFAULT_LOAN_ID_MAX, v)

\* The thresholds taken inclusively (>= in place of >).
CollectionOptions_Inclusive(days_overdue) ==
  IF days_overdue >= 730 THEN <<"Written Off", "Legal Action", "Settled">>
  ELSE IF days_overdue >= 365 THEN <<"Legal Action", "Active", "Written Off">>
  ELSE IF days_overdue >= 180 THEN <<"Active", "Legal Action">>
  ELSE <<"Active">>

\* The options random.choices draws the collection status from.
CollectionOptions(days_overdue) ==
  IF days_overdue > 730 THEN <<"Written Off", "Legal Action", "Settled">>
  ELSE IF days_overdue > 365 THEN <<"Legal Action", "Active", "Written Off">>
  ELSE IF days_overdue > 180 THEN <<"Active", "Legal Action">>
  ELSE <<"Active">>

\* A settlement that may recover penalties on top of the amount.
RecoveryRateRange_WithPenalty(status) ==
  CASE status = "Settled" -> <<40, 120>>
    [] status = "Active" -> <<0, 50>>
    [] status = "Legal Action" -> <<10, 60>>
    [] status = "Written Off" -> <<0, 30>>

\* recovery_rates: the four uniform draws, as whole percentages
\* (Settled 0.4..0.9, Active 0.0..0.5, Legal Action 0.1..0.6,
\* Written Off 0.0..0.3).
RecoveryRateRange(status) ==
  CASE status = "Settled" -> <<40, 90>>
    [] status = "Active" -> <<0, 50>>
    [] status = "Legal Action" -> <<10, 60>>
    [] status = "Written Off" -> <<0, 30>>

recovery_rates(d) ==
  [s \in {"Settled", "Active", "Legal Action", "Written Off"} |->
     Uniform(RecoveryRateRange(s)[1], RecoveryRateRange(s)[2], d.rate[s])]

\* random.randint(1, min(days_overdue, 90)) raises ValueError on an empty
\* range; days_overdue is (current_date - default_date).days.
ContactRangeEmpty(current_date, d) ==
  LET default_date == current_date - RandInt(30, 1095, d.days_back)
  IN RandIntEmpty(1, Min(current_date - default_date, 90))

DefaultDraws(fkPicks, daysBack, amounts, statusKs, contactPicks, legalRands, ratePicks) ==
  [customer : fkPicks, loan : fkPicks, days_back : daysBack,
   default_amount : amounts, status : statusKs, contact : contactPicks,
   legal_rand : legalRands,
   rate : [{"Settled", "Active", "Legal Action", "Written Off"} -> ratePicks]]

\* The days counted up to a fixed reporting date, date(2027, 1, 1).
DaysOverdue_ToReportingDate(current_date, default_date) == 739982 - default_date

\* The contact drawn from the last 90 days whatever the age of the default.
ContactDaysAgo_NinetyDays(days_overdue, v) == RandInt(1, 90, v)

\* contact_days_ago = random.randint(1, min(days_overdue, 90))
ContactDaysAgo(days_overdue, v) == RandInt(1, Min(days_overdue, 90), v)

\* days_overdue = (current_date - default_date).days
DaysOverdue(current_date, default_date) == current_date - default_date

DefaultRow(i, current_date, d) ==
  LET days_back == RandInt(30, 1095, d.days_back)
      default_date == current_date - days_back
      default_amount == Uniform(100000000, 800000000, d.default_amount)
      days_overdue == DaysOverdue(current_date, default_date)
      collection_status == Choice(CollectionOptions(days_overdue), d.status)
      contact_days_ago == ContactDaysAgo(days_overdue, d.contact)
      recovery_amount == MulPct(default_amount, recovery_rates(d)[collection_status])
  IN [table |-> "defaults_collections",
      default_id |-> i,
      customer_id |-> DefaultCustomerId(d.customer),
      loan_id |-> DefaultLoanId(d.loan),
      default_date |-> default_date,
      default_amount |-> Round2(default_amount),
      days_overdue |-> days_overdue,
      collection_status |-> collection_status,
      last_contact_date |-> current_date - contact_days_ago,
      legal_notice_sent |->
         (collection_status \in {"Legal Action", "Written Off"}
            \/ (days_overdue > 180 /\ Random(d.legal_rand) < 400)),
      recovery_amount |-> Round2(recovery_amount)]

\* ------------------------------------------------------------------------
\* 8./9. create_geographic_demographics, create_economic_indicators: one row
\* ------------------------------------------------------------------------
\* city_id = random.randint(1, len(INDIAN_CITIES))
GeoCityId(v) == RandInt(1, Len(INDIAN_CITIES), v)

GeoTiers == << "Tier1", "Tier2", "Tier3" >>

\* The range of pop_total for the tier drawn for the row.
PopTotalRange(tier) ==
  IF tier = "Tier1" THEN <<2000000, 15000000>>
  ELSE IF tier = "Tier2" THEN <<400000, 4000000>>
  ELSE <<80000, 1200000>>

\* The share taken as a growth factor, 1.24 to 1.36.
Population1835_Growth(pop_total, v) == (pop_total * Uniform(124, 136, v)) \div 100

\* int(pop_total * random.uniform(0.24, 0.36)), the share in hundredths
Population1835(pop_total, v) == (pop_total * Uniform(24, 36, v)) \div 100

\* int(pop_18_35 * random.uniform(0.12, 0.28))
EducationEnrollment(pop_18_35, v) == (pop_18_35 * Uniform(12, 28, v)) \div 100

\* The draws of one pass of the row loop of create_geographic_demographics.
GeoDraws(cityPicks, tiers, pops, youngShares, enrolShares) ==
  [city : cityPicks, tier : tiers, pop_total : pops, young_share : youngShares,
   enrol_share : enrolShares]

GeoRow(i, d) ==
  LET tier == Choice(GeoTiers, d.tier)
      pop_total == RandInt(PopTotalRange(tier)[1], PopTotalRange(tier)[2], d.pop_total)
      pop_18_35 == Population1835(pop_total, d.young_share)
  IN [table |-> "geographic_demographics",
      geo_id |-> i,
      city_id |-> GeoCityId(d.city),
      population_total |-> pop_total,
      population_18_35 |-> pop_18_35,
      higher_education_enrollment |-> EducationEnrollment(pop_18_35, d.enrol_share)]

\* state_id = random.randint(1, len(INDIAN_STATES))
EconomicStateId(v) == RandInt(1, Len(INDIAN_STATES), v)

EconomicRow(i, d) ==
  [table |-> "economic_indicators", indicator_id |-> i,
   state_id |-> EconomicStateId(d.state)]

\* ------------------------------------------------------------------------
\* State
\* ------------------------------------------------------------------------
VARIABLES
  pc,           \* where main() is: "main", "pools", "gen", "save", "ret",
                \* "summary", "except", "done"
  step,         \* the step (1..9) main() is at
  result,       \* how main() ended: "none", "True", "False", or "raised"
                \* when an exception leaves it
  exc,          \* the exception raised, "none" if none
  failedStep,   \* the step that raised it, 0 if none
  catalog,      \* the Databricks catalog: table name -> content
  buf,          \* the rows list / DataFrame of the running generator
  state_df,     \* the rows create_dim_state returned
  city_df,      \* the rows create_dim_city returned
  row,          \* one row of the batch generated last
  batch_start,  \* the loop variable of the running generator
  loan_id,      \* create_loans' counter
  pairsLen,     \* len(customer_loan_pairs)
  today,        \* datetime.now().date() of the run, a day ordinal
  saveLog,      \* the tables saved by this run, in order of completion
  inProgress,   \* the steps started and not yet returned
  started,      \* the steps started by this run
  written,      \* step -> the content this run saved for it
  held,         \* the tables whose rows are referenced in memory
  draws,        \* the random draws of the one row being generated
  loanTarget,   \* the target loan count L of the assignment
  customerRange,\* the customer id range is 1..C
  customer_loan_pairs,  \* the assignment list
  pools,        \* the draws still to make for the 1-, 2- and 3-loan pools
  rerun,        \* the outputs of two runs of the generator
  batching      \* a batched loop for a target N and a batch size B

mainVars ==
  << pc, step, result, exc, failedStep, catalog, buf, state_df, city_df, row,
     batch_start, loan_id, pairsLen, today, saveLog, inProgress, started,
     written, held >>

\* The variables main() does not touch.
auxVars ==
  << draws, loanTarget, customerRange, customer_loan_pairs, pools, rerun,
     batching >>

NoRow == [table |-> "none"]

NoDraws == [table |-> "none"]

NoPools == [single |-> 0, double |-> 0, triple |-> 0, drawn |-> 0]

NoBatching == [generator |-> "none"]

AuxIdle ==
  /\ draws = NoDraws
  /\ loanTarget = 0
  /\ customerRange = 0
  /\ customer_loan_pairs = << >>
  /\ pools = NoPools
  /\ rerun = << >>
  /\ batching = NoBatching

\* ------------------------------------------------------------------------
\* The catalog and the clock before the run
\* ------------------------------------------------------------------------
\* Row count of a table left by an earlier run.
OldRows == 5

InitialCatalogs ==
  { [t \in CatalogNames |-> NoTable],
    [t \in CatalogNames |-> OldTable(OldRows)],
    [t \in CatalogNames |->
       IF t \in {"dim_state", "loans", OTHER_TABLE} THEN OldTable(OldRows) ELSE NoTable] }

\* date(2024, 2, 29) and date(2026, 11, 5) as ordinals.
RunDates == {738945, 739925}

MainInit ==
  /\ pc = "main"
  /\ step = 1
  /\ result = "none"
  /\ exc = "none"
  /\ failedStep = 0
  /\ catalog \in InitialCatalogs
  /\ buf = EmptyBuf
  /\ state_df = << >>
  /\ city_df = << >>
  /\ row = NoRow
  /\ batch_start = 0
  /\ loan_id = 0
  /\ pairsLen = 0
  /\ today \in RunDates
  /\ saveLog = << >>
  /\ inProgress = {}
  /\ started = {}
  /\ written = [k \in 1..Len(TABLES) |-> NoTable]
  /\ held = {}
  /\ AuxIdle

\* ------------------------------------------------------------------------
\* main(): the calls, in order
\* ------------------------------------------------------------------------
\* range(N) in every step.
FirstIndex_Zero(k) == 0

\* The first value of the generator's loop variable: range(0, N, BATCH_SIZE)
\* in steps 3..5, range(1, N + 1) in steps 6..9.
FirstIndex(k) == IF k \in 6..9 THEN 1 ELSE 0

\* main() calls the generator of the step.
StartStep ==
  /\ pc = "main"
  /\ step \in 1..Len(TABLES)
  /\ pc' = IF step = 5 THEN "pools" ELSE "gen"
  /\ inProgress' = inProgress \cup {step}
  /\ started' = started \cup {step}
  /\ held' = held \cup {TABLES[step]}
  /\ buf' = EmptyBuf
  /\ batch_start' = FirstIndex(step)
  /\ loan_id' = IF step = 5 THEN 1 ELSE loan_id
  /\ UNCHANGED << step, result, exc, failedStep, catalog, state_df, city_df, row,
                  pairsLen, today, saveLog, written >>
  /\ UNCHANGED auxVars

\* The generator swallows the exception and returns.
Raised_Swallowed(e) ==
  /\ pc' = "ret"
  /\ exc' = e
  /\ failedStep' = step

\* An exception leaves the generator; main()'s try block is left too.
Raised(e) ==
  /\ pc' = "except"
  /\ exc' = e
  /\ failedStep' = step

GenDimState ==
  /\ pc = "gen"
  /\ step = 1
  /\ buf' = DimBuf(StateRows, "state_id")
  /\ pc' = "save"
  /\ UNCHANGED << step, result, exc, failedStep, catalog, state_df, city_df, row,
                  batch_start, loan_id, pairsLen, today, saveLog, inProgress,
                  written, held, started >>
  /\ UNCHANGED auxVars

GenDimCity ==
  /\ pc = "gen"
  /\ step = 2
  /\ IF LookupFails(state_df)
     THEN /\ Raised("KeyError")
          /\ UNCHANGED buf
     ELSE /\ buf' = DimBuf(CityRows(state_df), "city_id")
          /\ pc' = "save"
          /\ UNCHANGED << exc, failedStep >>
  /\ UNCHANGED << step, result, catalog, state_df, city_df, row, batch_start,
                  loan_id, pairsLen, today, saveLog, inProgress, written, held, started >>
  /\ UNCHANGED auxVars

\* The row of a batch that row stands for: the first or the last.
SampleIdx(batch_size) == {0, batch_size - 1}

\* The rows city_df.sample(n, replace=True, weights) may return: every weight
\* is positive, so any row; the first and the last row and the first row of
\* each tier stand for them.
CityPicks(df) ==
  {1, Len(df)} \cup
  { CHOOSE i \in 1..Len(df) :
      /\ df[i].tier_classification = t
      /\ \A j \in 1..(i - 1) : df[j].tier_classification # t
    : t \in {df[i].tier_classification : i \in 1..Len(df)} }

\* The draws of a customer row in the pipeline: one of each.
PipelineCustomerDraws == CustomerDraws({LOW}, {LOW}, {HIGH}, {1}, {HIGH}, {HIGH}, {LOW})

\* A sample that takes the drawn row out of the table it draws from.
SampleCities_InPlace(df, c) ==
  [batch_cities |-> df[c],
   city_df |-> SubSeq(df, 1, c - 1) \o SubSeq(df, c + 1, Len(df))]

\* city_df.sample(n=batch_size, replace=True, weights=city_weights) returns
\* a new DataFrame of the drawn rows (here the row at c) and leaves city_df
\* as it is; iterrows() only reads.
SampleCities(df, c) == [batch_cities |-> df[c], city_df |-> df]

\* for batch_start in range(0, CUSTOMER_RECORDS, BATCH_SIZE): one batch
CustomersBatch ==
  /\ pc = "gen"
  /\ step = 3
  /\ batch_start < CUSTOMER_RECORDS
  /\ LET batch_end == BatchEnd(batch_start, BATCH_SIZE, CUSTOMER_RECORDS)
         batch_size == batch_end - batch_start
     IN /\ \E i \in SampleIdx(batch_size), c \in CityPicks(city_df),
               d \in PipelineCustomerDraws :
             /\ row' = CustomerRow(CustomerId(batch_start, i),
                                   SampleCities(city_df, c).batch_cities,
                                   YearOf(today), d)
             /\ city_df' = SampleCities(city_df, c).city_df
        /\ buf' = AddRows(buf, CustomerId(batch_start, 0),
                          CustomerId(batch_start, batch_size - 1))
  /\ batch_start' = batch_start + BATCH_SIZE
  /\ UNCHANGED << pc, step, result, exc, failedStep, catalog, state_df,
                  loan_id, pairsLen, today, saveLog, inProgress, written, held, started >>
  /\ UNCHANGED auxVars

\* for batch_start in range(0, OTHER_TABLE_RECORDS, BATCH_SIZE): one batch
InstitutionsBatch ==
  /\ pc = "gen"
  /\ step = 4
  /\ batch_start < OTHER_TABLE_RECORDS
  /\ LET batch_end == BatchEnd(batch_start, BATCH_SIZE, OTHER_TABLE_RECORDS)
         batch_size == batch_end - batch_start
     IN /\ \E i \in SampleIdx(batch_size), c \in CityPicks(city_df) :
             /\ row' = InstitutionRow(InstitutionId(batch_start, i),
                                      SampleCities(city_df, c).batch_cities)
             /\ city_df' = SampleCities(city_df, c).city_df
        /\ buf' = AddRows(buf, InstitutionId(batch_start, 0),
                          InstitutionId(batch_start, batch_size - 1))
  /\ batch_start' = batch_start + BATCH_SIZE
  /\ UNCHANGED << pc, step, result, exc, failedStep, catalog, state_df,
                  loan_id, pairsLen, today, saveLog, inProgress, written, held, started >>
  /\ UNCHANGED auxVars

\* The three loops that fill customer_loan_pairs, random.shuffle and the
\* slice [:LOAN_RECORDS]: every entry is a draw of 1..CUSTOMER_RECORDS.
LoansPools ==
  /\ pc = "pools"
  /\ pairsLen' = SliceLen(PoolLen(LOAN_RECORDS), LOAN_RECORDS)
  /\ pc' = "gen"
  /\ UNCHANGED << step, result, exc, failedStep, catalog, buf, state_df, city_df,
                  row, batch_start, loan_id, today, saveLog, inProgress, written,
                  held, started >>
  /\ UNCHANGED auxVars

\* The draws of a row that TLC varies in the pipeline: the foreign keys.
PipelineLoanDraws ==
  LoanDraws(Ends, {LOW}, {LOW}, {700}, {LOW}, {1}, {LOW}, {LOW}, {500})

\* for batch_start in range(0, LOAN_RECORDS, BATCH_SIZE): one batch.
\* customer_loan_pairs[i] raises IndexError at the first i >= len.
LoansBatch ==
  /\ pc = "gen"
  /\ step = 5
  /\ batch_start < LOAN_RECORDS
  /\ LET batch_end == BatchEnd(batch_start, BATCH_SIZE, LOAN_RECORDS)
         done == Min(batch_end, Max(pairsLen, batch_start)) - batch_start
     IN /\ IF batch_end > pairsLen
           THEN /\ Raised("IndexError")
                /\ UNCHANGED row
           ELSE /\ \E i \in SampleIdx(batch_end - batch_start),
                       p \in Ends, d \in PipelineLoanDraws :
                       row' = LoanRow(loan_id + i,
                                      PoolCustomerId(CUSTOMER_RECORDS, p), today, d)
                /\ UNCHANGED << pc, exc, failedStep >>
        /\ buf' = AddRows(buf, loan_id, loan_id + done - 1)
        /\ loan_id' = loan_id + done
  /\ batch_start' = batch_start + BATCH_SIZE
  /\ UNCHANGED << step, result, catalog, state_df, city_df, pairsLen, today,
                  saveLog, inProgress, written, held, started >>
  /\ UNCHANGED auxVars

\* The last index of the stretch of range(1, N + 1) that starts at i and ends
\* at the next progress checkpoint (i % 50000 == 0) or at N.
ChunkEnd(i, N) == Min(((i - 1) \div PROGRESS_EVERY + 1) * PROGRESS_EVERY, N)

\* The index, in i..last, of the row that row stands for.
SampleRow(i, last) == {i, last}

\* The draws of a payment row in the pipeline: the lowest full payment for
\* both ends of the loan id, the lowest partial payment with each status
\* that is not Success, and the highest full payment.
PipelinePaymentDraws ==
  PaymentDraws(Ends, {LOW}, {LOW}, {50}, {LOW}, {LOW}, {919}, {1}, {LOW}, {LOW}, {LOW})
  \cup
  PaymentDraws({HIGH}, {HIGH}, {LOW}, {49}, {LOW}, {HIGH}, {920}, {1, 2}, {LOW}, {LOW}, {LOW})
  \cup
  PaymentDraws({HIGH}, {HIGH}, {HIGH}, {50}, {HIGH}, {HIGH}, {919}, {1}, {LOW}, {LOW}, {LOW})

\* for i in range(1, OTHER_TABLE_RECORDS + 1), to the next checkpoint
PaymentsChunk ==
  /\ pc = "gen"
  /\ step = 6
  /\ batch_start <= OTHER_TABLE_RECORDS
  /\ LET last == ChunkEnd(batch_start, OTHER_TABLE_RECORDS)
     IN /\ \E i \in SampleRow(batch_start, last), d \in PipelinePaymentDraws :
             row' = PaymentRow(i, today, d)
        /\ buf' = AddRows(buf, batch_start, last)
        /\ batch_start' = last + 1
  /\ UNCHANGED << pc, step, result, exc, failedStep, catalog, state_df, city_df,
                  loan_id, pairsLen, today, saveLog, inProgress, written, held, started >>
  /\ UNCHANGED auxVars

PipelineDefaultDraws ==
  DefaultDraws(Ends, {LOW}, {LOW}, {1}, {LOW}, {0}, {LOW})

\* for i in range(1, OTHER_TABLE_RECORDS + 1), to the next checkpoint
DefaultsChunk ==
  /\ pc = "gen"
  /\ step = 7
  /\ batch_start <= OTHER_TABLE_RECORDS
  /\ LET last == ChunkEnd(batch_start, OTHER_TABLE_RECORDS)
     IN \E i \in SampleRow(batch_start, last), d \in PipelineDefaultDraws :
          IF ContactRangeEmpty(today, d)
          THEN /\ Raised("ValueError")
               /\ buf' = AddRows(buf, batch_start, i - 1)
               /\ UNCHANGED << row, batch_start >>
          ELSE /\ row' = DefaultRow(i, today, d)
               /\ buf' = AddRows(buf, batch_start, last)
               /\ batch_start' = last + 1
               /\ UNCHANGED << pc, exc, failedStep >>
  /\ UNCHANGED << step, result, catalog, state_df, city_df, loan_id, pairsLen,
                  today, saveLog, inProgress, written, held, started >>
  /\ UNCHANGED auxVars

\* for i in range(1, OTHER_TABLE_RECORDS + 1), to the next checkpoint
GeoChunk ==
  /\ pc = "gen"
  /\ step = 8
  /\ batch_start <= OTHER_TABLE_RECORDS
  /\ LET last == ChunkEnd(batch_start, OTHER_TABLE_RECORDS)
     IN /\ \E i \in SampleRow(batch_start, last), d \in GeoDraws(Ends, {1}, {LOW}, {LOW}, {LOW}) :
             row' = GeoRow(i, d)
        /\ buf' = AddRows(buf, batch_start, last)
        /\ batch_start' = last + 1
  /\ UNCHANGED << pc, step, result, exc, failedStep, catalog, state_df, city_df,
                  loan_id, pairsLen, today, saveLog, inProgress, written, held, started >>
  /\ UNCHANGED auxVars

\* for i in range(1, OTHER_TABLE_RECORDS + 1), to the next checkpoint
EconomicChunk ==
  /\ pc = "gen"
  /\ step = 9
  /\ batch_start <= OTHER_TABLE_RECORDS
  /\ LET last == ChunkEnd(batch_start, OTHER_TABLE_RECORDS)
     IN /\ \E i \in SampleRow(batch_start, last), d \in [state : Ends] :
             row' = EconomicRow(i, d)
        /\ buf' = AddRows(buf, batch_start, last)
        /\ batch_start' = last + 1
  /\ UNCHANGED << pc, step, result, exc, failedStep, catalog, state_df, city_df,
                  loan_id, pairsLen, today, saveLog, inProgress, written, held, started >>
  /\ UNCHANGED auxVars

\* The number of rows the loop of step k is to make.
Target(k) ==
  CASE k = 3 -> CUSTOMER_RECORDS
    [] k = 5 -> LOAN_RECORDS
    [] OTHER -> OTHER_TABLE_RECORDS

\* The loop of steps 3..9 is over: df = pd.DataFrame(rows).
LoopDone ==
  /\ pc = "gen"
  /\ step \in 3..9
  /\ batch_start >= Target(step) + FirstIndex(step)
  /\ pc' = "save"
  /\ UNCHANGED << step, result, exc, failedStep, catalog, buf, state_df, city_df,
                  row, batch_start, loan_id, pairsLen, today, saveLog, inProgress,
                  written, held, started >>
  /\ UNCHANGED auxVars

\* mode("append"): the rows of df are added to the rows the table holds.
SaveAsTable_Append(cat, name, df) ==
  [cat EXCEPT ![name] =
     IF @.run = "none" THEN df
     ELSE [run |-> "mixed", n |-> @.n + df.n, ids |-> @.ids \o df.ids,
           rows |-> @.rows \o df.rows]]

\* spark.createDataFrame(df).write.format("delta").mode("overwrite")
\*   .saveAsTable(name): the table of that name now holds the rows of df.
SaveAsTable(cat, name, df) == [cat EXCEPT ![name] = df]

Save ==
  /\ pc = "save"
  /\ catalog' = SaveAsTable(catalog, TABLES[step], buf)
  /\ saveLog' = Append(saveLog, TABLES[step])
  /\ written' = [written EXCEPT ![step] = buf]
  /\ pc' = "ret"
  /\ UNCHANGED << step, result, exc, failedStep, buf, state_df, city_df, row,
                  batch_start, loan_id, pairsLen, today, inProgress, held, started >>
  /\ UNCHANGED auxVars

\* main() deletes the DataFrame of every step.
KeptByMain_None(k) == FALSE

\* main() keeps state_df and city_df and deletes every other DataFrame
\* (del ...; gc.collect()).
KeptByMain(k) == k \in {1, 2}

\* The generator returns df; main() binds or deletes it and goes on.
Return ==
  /\ pc = "ret"
  /\ state_df' = IF step = 1 THEN buf.rows ELSE state_df
  /\ city_df' = IF step = 2 THEN buf.rows ELSE city_df
  /\ held' = IF KeptByMain(step) THEN held ELSE held \ {TABLES[step]}
  /\ inProgress' = inProgress \ {step}
  /\ buf' = EmptyBuf
  /\ step' = step + 1
  /\ pc' = IF step = Len(TABLES) THEN "summary" ELSE "main"
  /\ UNCHANGED << result, exc, failedStep, catalog, row, batch_start, loan_id,
                  pairsLen, today, saveLog, written, started >>
  /\ UNCHANGED auxVars

\* The summary is printed and main() returns True.
Summary ==
  /\ pc = "summary"
  /\ result' = "True"
  /\ pc' = "done"
  /\ held' = {}
  /\ UNCHANGED << step, exc, failedStep, catalog, buf, state_df, city_df, row,
                  batch_start, loan_id, pairsLen, today, saveLog, inProgress,
                  written, started >>
  /\ UNCHANGED auxVars

\* The environment fails a generator: MemoryError while the rows are built,
\* or an error of Spark in createDataFrame or saveAsTable, which leaves the
\* table as it was (a Delta overwrite is one transaction).
EnvRaise ==
  /\ pc \in {"pools", "gen", "save"}
  /\ Raised("EnvError")
  /\ UNCHANGED << step, result, catalog, buf, state_df, city_df, row, batch_start,
                  loan_id, pairsLen, today, saveLog, inProgress, written, held, started >>
  /\ UNCHANGED auxVars

\* The handler logs and raises again.
Handler_Reraise ==
  /\ pc = "except"
  /\ result' = "raised"
  /\ pc' = "done"
  /\ inProgress' = {}
  /\ held' = {}
  /\ buf' = EmptyBuf
  /\ UNCHANGED << step, exc, failedStep, catalog, state_df, city_df, row,
                  batch_start, loan_id, pairsLen, today, saveLog, written, started >>
  /\ UNCHANGED auxVars

\* except Exception as e: print, traceback.print_exc(), return False
Handler ==
  /\ pc = "except"
  /\ result' = "False"
  /\ pc' = "done"
  /\ inProgress' = {}
  /\ held' = {}
  /\ buf' = EmptyBuf
  /\ UNCHANGED << step, exc, failedStep, catalog, state_df, city_df, row,
                  batch_start, loan_id, pairsLen, today, saveLog, written, started >>
  /\ UNCHANGED auxVars

MainNext ==
  \/ StartStep
  \/ GenDimState
  \/ GenDimCity
  \/ CustomersBatch
  \/ InstitutionsBatch
  \/ LoansPools
  \/ LoansBatch
  \/ PaymentsChunk
  \/ DefaultsChunk
  \/ GeoChunk
  \/ EconomicChunk
  \/ LoopDone
  \/ Save
  \/ Return
  \/ Summary
  \/ EnvRaise
  \/ Handler

vars == << mainVars, auxVars >>

Init == MainInit

Next == MainNext

Spec == Init /\ [][Next]_vars

\* main() runs in one thread that is never suspended for ever: a step that
\* can be taken is taken.
FairSpec == Spec /\ WF_vars(Next)


\* ------------------------------------------------------------------------
\* One row at a time: the body of a generator's row loop applied to every
\* combination of draws
\* ------------------------------------------------------------------------
\* The draws of a loan row: both ends of every range, and the values next to
\* each threshold the code compares a draw with.
RowLoanDraws ==
  LoanDraws({HIGH}, {LOW}, {LOW},
            {LOW, 599, 600, 649, 650, 699, 700, 749, 750, HIGH},
            {LOW},
            1..Len(TenureOptions),
            {LOW, 61, 1124, 1125, HIGH},
            {LOW, 8, 26, HIGH},
            {LOW, 79, 80, 139, 140, 159, 160, 219, 220, 229, 230, 289, 290, HIGH})
  \cup
  LoanDraws({HIGH}, {LOW, 200000005, HIGH}, Ends,
            {LOW, 650, 750},
            {LOW, 105000, 105049, 140000, 174951, HIGH},
            1..Len(TenureOptions),
            {LOW}, {LOW}, {500})

\* The draws of a defaults_collections row: days_back on both sides of 180,
\* 365 and 730, amounts at both ends and on a rounding tie.
RowDefaultDraws ==
  DefaultDraws({HIGH},
               {LOW, 90, 91, 180, 181, 365, 366, 730, 731, HIGH},
               {LOW, 100000005, 123456785, HIGH},
               1..3,
               Ends,
               {399, 400},
               Ends)

\* The draws of a customer row: both ends of every range, every employment
\* type, February among the months.
RowCustomerDraws ==
  CustomerDraws(Ends, {LOW, 2, HIGH}, Ends, 1..Len(EmploymentTypes), Ends, Ends, Ends)

\* The draws of a geographic_demographics row: every tier, both ends of
\* every range and a population the shares do not divide.
RowGeoDraws == GeoDraws({HIGH}, 1..Len(GeoTiers), {LOW, 1234567, HIGH}, Ends, Ends)

\* The draws of a payment row: full and partial payments, the floor of
\* 1000, the three statuses, both ends of the interest share, with and
\* without a late fee.
RowPaymentDraws ==
  PaymentDraws({HIGH}, {LOW}, {LOW, 12345678, HIGH}, {49, 50}, Ends, Ends,
               {919, 920}, {1, 2}, {LOW, 456, HIGH}, {79, 80}, Ends)

RowDraws ==
  {[table |-> "geographic_demographics", id |-> i, d |-> d] :
     i \in {OTHER_TABLE_RECORDS}, d \in RowGeoDraws}
  \cup
  {[table |-> "customers", id |-> i, city |-> c, d |-> d] :
     i \in {CUSTOMER_RECORDS}, c \in CityPicks(CityRows(StateRows)),
     d \in RowCustomerDraws}
  \cup
  {[table |-> "loans", id |-> i, customer |-> c, d |-> d] :
     i \in {LOAN_RECORDS}, c \in {HIGH}, d \in RowLoanDraws}
  \cup
  {[table |-> "defaults_collections", id |-> i, d |-> d] :
     i \in {OTHER_TABLE_RECORDS}, d \in RowDefaultDraws}
  \cup
  {[table |-> "payments", id |-> i, d |-> d] :
     i \in {OTHER_TABLE_RECORDS}, d \in RowPaymentDraws}

RowsInit ==
  /\ pc = "row"
  /\ step = 0
  /\ result = "none"
  /\ exc = "none"
  /\ failedStep = 0
  /\ catalog = [t \in CatalogNames |-> NoTable]
  /\ buf = EmptyBuf
  /\ state_df = StateRows
  /\ city_df = CityRows(StateRows)
  /\ row = NoRow
  /\ batch_start = 0
  /\ loan_id = 0
  /\ pairsLen = 0
  /\ today \in RunDates
  /\ saveLog = << >>
  /\ inProgress = {}
  /\ started = {}
  /\ written = [k \in 1..Len(TABLES) |-> NoTable]
  /\ held = {}
  /\ draws \in RowDraws
  /\ loanTarget = 0
  /\ customerRange = 0
  /\ customer_loan_pairs = << >>
  /\ pools = NoPools
  /\ rerun = << >>
  /\ batching = NoBatching

\* What a row step leaves alone.
rowFrame ==
  << step, result, failedStep, catalog, buf, state_df, city_df, batch_start,
     loan_id, pairsLen, today, saveLog, inProgress, started, written, held,
     draws, loanTarget, customerRange, customer_loan_pairs, pools, rerun,
     batching >>

\* One pass of the row loop of create_customers, for a city of city_df.
GenPaymentRow ==
  /\ pc = "row"
  /\ draws.table = "payments"
  /\ row' = PaymentRow(draws.id, today, draws.d)
  /\ pc' = "rowdone"
  /\ UNCHANGED << exc, rowFrame >>

GenCustomerRow ==
  /\ pc = "row"
  /\ draws.table = "customers"
  /\ row' = CustomerRow(draws.id, city_df[draws.city], YearOf(today), draws.d)
  /\ pc' = "rowdone"
  /\ UNCHANGED << exc, rowFrame >>

\* One pass of the row loop of create_loans.
GenLoanRow ==
  /\ pc = "row"
  /\ draws.table = "loans"
  /\ row' = LoanRow(draws.id, PoolCustomerId(CUSTOMER_RECORDS, draws.customer),
                    today, draws.d)
  /\ pc' = "rowdone"
  /\ UNCHANGED << exc, rowFrame >>

\* One pass of the row loop of create_defaults_collections.
GenDefaultRow ==
  /\ pc = "row"
  /\ draws.table = "defaults_collections"
  /\ IF ContactRangeEmpty(today, draws.d)
     THEN /\ exc' = "ValueError"
          /\ UNCHANGED row
     ELSE /\ row' = DefaultRow(draws.id, today, draws.d)
          /\ UNCHANGED exc
  /\ pc' = "rowdone"
  /\ UNCHANGED rowFrame

\* One pass of the row loop of create_geographic_demographics.
GenGeoRow ==
  /\ pc = "row"
  /\ draws.table = "geographic_demographics"
  /\ row' = GeoRow(draws.id, draws.d)
  /\ pc' = "rowdone"
  /\ UNCHANGED << exc, rowFrame >>

RowsNext ==
  \/ GenGeoRow
  \/ GenCustomerRow
  \/ GenPaymentRow
  \/ GenLoanRow
  \/ GenDefaultRow

SpecRows == RowsInit /\ [][RowsNext]_vars

\* ------------------------------------------------------------------------
\* The customer-loan assignment of create_loans, entry by entry, for small
\* targets L and customer ranges 1..C
\* ------------------------------------------------------------------------
\* The largest target loan count and customer id tried.
MaxTarget == 20

MaxCustomers == 2

\* The draws repeat a tape of this length, so that one run is one sequence
\* of draws.
TapeLen == 3

\* The value of the k-th draw (k from 0) of a tape.
TapeAt(tape, k) == tape[(k % Len(tape)) + 1]

\* A shuffle that copies x[j] over x[i] and does not swap.
RECURSIVE Shuffled_Overwrite(_, _, _, _)
Shuffled_Overwrite(x, i, tape, k) ==
  IF i <= 1 THEN x
  ELSE LET j == ((TapeAt(tape, k) + k) % i) + 1
       IN Shuffled_Overwrite([x EXCEPT ![i] = x[j]], i - 1, tape, k + 1)

\* random.shuffle(x): for i from len(x) - 1 down to 1, swap x[i] with x[j],
\* j drawn from 0..i.  Here x is indexed from 1 and the draws follow k.
RECURSIVE Shuffled(_, _, _, _)
Shuffled(x, i, tape, k) ==
  IF i <= 1 THEN x
  ELSE LET j == ((TapeAt(tape, k) + k) % i) + 1
       IN Shuffled([x EXCEPT ![i] = x[j], ![j] = x[i]], i - 1, tape, k + 1)

AssignInit ==
  /\ pc = "assign"
  /\ step = 0
  /\ result = "none"
  /\ exc = "none"
  /\ failedStep = 0
  /\ catalog = [t \in CatalogNames |-> NoTable]
  /\ buf = EmptyBuf
  /\ state_df = << >>
  /\ city_df = << >>
  /\ row = NoRow
  /\ batch_start = 0
  /\ loan_id = 0
  /\ pairsLen = 0
  /\ today \in RunDates
  /\ saveLog = << >>
  /\ inProgress = {}
  /\ started = {}
  /\ written = [k \in 1..Len(TABLES) |-> NoTable]
  /\ held = {}
  /\ loanTarget \in 1..MaxTarget
  /\ customerRange \in 1..MaxCustomers
  /\ draws \in {[table |-> "assign", tape |-> t] : t \in [1..TapeLen -> 1..customerRange]}
  /\ customer_loan_pairs = << >>
  /\ pools = [single |-> SingleDraws(loanTarget), double |-> DoubleDraws(loanTarget),
              triple |-> TripleDraws(loanTarget), drawn |-> 0]
  /\ rerun = << >>
  /\ batching = NoBatching

\* What a step of the assignment leaves alone.
assignFrame ==
  << step, result, failedStep, catalog, buf, state_df, city_df, row, batch_start,
     loan_id, today, saveLog, inProgress, started, written, held, draws,
     loanTarget, customerRange, rerun, batching >>

\* The customer id of the next draw.
NextCustomer == PoolCustomerId(customerRange, TapeAt(draws.tape, pools.drawn))

\* for i in range(customers_with_1_loan): one pass
DrawSingle ==
  /\ pc = "assign"
  /\ pools.single > 0
  /\ customer_loan_pairs' = Extend(customer_loan_pairs, NextCustomer, 1)
  /\ pools' = [pools EXCEPT !.single = @ - 1, !.drawn = @ + 1]
  /\ UNCHANGED << pc, exc, pairsLen, assignFrame >>

\* for i in range(customers_with_2_loans // 2): one pass
DrawDouble ==
  /\ pc = "assign"
  /\ pools.single = 0
  /\ pools.double > 0
  /\ customer_loan_pairs' = Extend(customer_loan_pairs, NextCustomer, 2)
  /\ pools' = [pools EXCEPT !.double = @ - 1, !.drawn = @ + 1]
  /\ UNCHANGED << pc, exc, pairsLen, assignFrame >>

\* for i in range(customers_with_3_loans // 3): one pass
DrawTriple ==
  /\ pc = "assign"
  /\ pools.single = 0
  /\ pools.double = 0
  /\ pools.triple > 0
  /\ customer_loan_pairs' = Extend(customer_loan_pairs, NextCustomer, 3)
  /\ pools' = [pools EXCEPT !.triple = @ - 1, !.drawn = @ + 1]
  /\ UNCHANGED << pc, exc, pairsLen, assignFrame >>

\* random.shuffle(customer_loan_pairs);
\* customer_loan_pairs = customer_loan_pairs[:LOAN_RECORDS]
ShuffleAndSlice ==
  /\ pc = "assign"
  /\ pools.single = 0
  /\ pools.double = 0
  /\ pools.triple = 0
  /\ LET shuffled == Shuffled(customer_loan_pairs, Len(customer_loan_pairs),
                              draws.tape, pools.drawn)
     IN customer_loan_pairs' =
          SubSeq(shuffled, 1, SliceLen(Len(shuffled), loanTarget))
  /\ pairsLen' = SliceLen(Len(customer_loan_pairs), loanTarget)
  /\ pc' = "assigned"
  /\ UNCHANGED << exc, pools, assignFrame >>

\* The row loop reads customer_loan_pairs[i] for i = 0..LOAN_RECORDS - 1.
ReadPairs ==
  /\ pc = "assigned"
  /\ exc' = IF loanTarget > Len(customer_loan_pairs) THEN "IndexError" ELSE "none"
  /\ pc' = "read"
  /\ UNCHANGED << customer_loan_pairs, pools, pairsLen, assignFrame >>

AssignNext ==
  \/ DrawSingle
  \/ DrawDouble
  \/ DrawTriple
  \/ ShuffleAndSlice
  \/ ReadPairs

SpecAssign == AssignInit /\ [][AssignNext]_vars

\* ------------------------------------------------------------------------
\* Two runs of the generator, each in a fresh process: the seeds are set
\* again (Faker.seed(42), random.seed(42), np.random.seed(42)), so both runs
\* make the same draws; the clock is read again.
\* ------------------------------------------------------------------------
\* Days the clock may advance between the two runs.
MaxDaysApart == 2

\* The dates of the first run: those of the other specifications and
\* date(2025, 12, 31), after which the year changes.
RerunDates == RunDates \cup {739616}

\* What the seed fixes: the draws of a customer row, a loan row, a payment
\* row and a default row.
SeededDraws ==
  {[table |-> "rerun", loan |-> l, default |-> d, customer |-> c, payment |-> p] :
     l \in LoanDraws({LOW}, {LOW}, {LOW}, {LOW, 650}, {LOW}, {1, 6}, Ends, Ends,
                     {LOW, HIGH}),
     d \in DefaultDraws({LOW}, Ends, {LOW}, {1, 3}, {LOW}, {0}, {LOW}),
     c \in PipelineCustomerDraws,
     p \in PaymentDraws({LOW}, Ends, {LOW}, {50}, {LOW}, {LOW}, {919, 920}, {1}, {LOW}, {LOW}, {LOW})}

\* The rows one run writes from the draws and from the date it reads.
RunOutput(current_date, d) ==
  [customers |-> CustomerRow(1, CityRows(StateRows)[1], YearOf(current_date),
                             d.customer),
   loans |-> LoanRow(1, PoolCustomerId(CUSTOMER_RECORDS, LOW), current_date, d.loan),
   payments |-> PaymentRow(1, current_date, d.payment),
   defaults_collections |-> DefaultRow(1, current_date, d.default)]

RerunInit ==
  /\ pc = "rerun"
  /\ step = 0
  /\ result = "none"
  /\ exc = "none"
  /\ failedStep = 0
  /\ catalog = [t \in CatalogNames |-> NoTable]
  /\ buf = EmptyBuf
  /\ state_df = << >>
  /\ city_df = << >>
  /\ row = NoRow
  /\ batch_start = 0
  /\ loan_id = 0
  /\ pairsLen = 0
  /\ today \in RerunDates
  /\ saveLog = << >>
  /\ inProgress = {}
  /\ started = {}
  /\ written = [k \in 1..Len(TABLES) |-> NoTable]
  /\ held = {}
  /\ draws \in SeededDraws
  /\ loanTarget = 0
  /\ customerRange = 0
  /\ customer_loan_pairs = << >>
  /\ pools = NoPools
  /\ rerun = << >>
  /\ batching = NoBatching

rerunFrame ==
  << pc, step, result, exc, failedStep, catalog, buf, state_df, city_df, row,
     loan_id, pairsLen, saveLog, inProgress, started, written, held, draws,
     loanTarget, customerRange, customer_loan_pairs, pools, batching >>

\* The generator is run: current_date = datetime.now().date().
RunGenerator ==
  /\ pc = "rerun"
  /\ Len(rerun) < 2
  /\ rerun' = Append(rerun, RunOutput(today, draws))
  /\ UNCHANGED << today, batch_start, rerunFrame >>

\* A day passes between the runs; batch_start counts the days.
DayPasses ==
  /\ pc = "rerun"
  /\ Len(rerun) = 1
  /\ batch_start < MaxDaysApart
  /\ today' = today + 1
  /\ batch_start' = batch_start + 1
  /\ UNCHANGED << rerun, rerunFrame >>

RerunNext ==
  \/ RunGenerator
  \/ DayPasses

SpecRerun == RerunInit /\ [][RerunNext]_vars

\* ------------------------------------------------------------------------
\* The batched loops of create_customers, create_institutions and
\* create_loans for small targets N and batch sizes B, id by id
\* ------------------------------------------------------------------------
\* The largest target and batch size tried.
MaxRows == 7

MaxBatch == 4

BatchedGenerators == {"customers", "institutions", "loans"}

BatchInit ==
  /\ pc = "batch"
  /\ step = 0
  /\ result = "none"
  /\ exc = "none"
  /\ failedStep = 0
  /\ catalog = [t \in CatalogNames |-> NoTable]
  /\ buf = EmptyBuf
  /\ state_df = << >>
  /\ city_df = << >>
  /\ row = NoRow
  /\ batch_start = 0
  /\ loan_id = 1
  /\ pairsLen = 0
  /\ today \in RunDates
  /\ saveLog = << >>
  /\ inProgress = {}
  /\ started = {}
  /\ written = [k \in 1..Len(TABLES) |-> NoTable]
  /\ held = {}
  /\ draws = NoDraws
  /\ loanTarget = 0
  /\ customerRange = 0
  /\ customer_loan_pairs = << >>
  /\ pools = NoPools
  /\ rerun = << >>
  /\ batching \in
       {[generator |-> g, N |-> n, B |-> b, batches |-> << >>, ids |-> << >>] :
          g \in BatchedGenerators, n \in 0..MaxRows, b \in 1..MaxBatch}

\* What a batch leaves alone.
batchFrame ==
  << pc, step, result, exc, failedStep, catalog, buf, state_df, city_df, row,
     pairsLen, today, saveLog, inProgress, started, written, held, draws,
     loanTarget, customerRange, customer_loan_pairs, pools, rerun >>

\* One batch of create_customers: for i, ... in enumerate(batch_cities)
SmallCustomersBatch ==
  /\ pc = "batch"
  /\ batching.generator = "customers"
  /\ batch_start < batching.N
  /\ LET batch_end == BatchEnd(batch_start, batching.B, batching.N)
         batch_size == batch_end - batch_start
     IN batching' =
          [batching EXCEPT
             !.batches = Append(@, <<batch_start, batch_end>>),
             !.ids = @ \o [k \in 1..batch_size |-> CustomerId(batch_start, k - 1)]]
  /\ batch_start' = batch_start + batching.B
  /\ UNCHANGED << loan_id, batchFrame >>

\* One batch of create_institutions
SmallInstitutionsBatch ==
  /\ pc = "batch"
  /\ batching.generator = "institutions"
  /\ batch_start < batching.N
  /\ LET batch_end == BatchEnd(batch_start, batching.B, batching.N)
         batch_size == batch_end - batch_start
     IN batching' =
          [batching EXCEPT
             !.batches = Append(@, <<batch_start, batch_end>>),
             !.ids = @ \o [k \in 1..batch_size |-> InstitutionId(batch_start, k - 1)]]
  /\ batch_start' = batch_start + batching.B
  /\ UNCHANGED << loan_id, batchFrame >>

\* One batch of create_loans: for i in range(batch_start, batch_end), with
\* loan_id counted up by one for each row
SmallLoansBatch ==
  /\ pc = "batch"
  /\ batching.generator = "loans"
  /\ batch_start < batching.N
  /\ LET batch_end == BatchEnd(batch_start, batching.B, batching.N)
         batch_size == batch_end - batch_start
     IN /\ batching' =
             [batching EXCEPT
                !.batches = Append(@, <<batch_start, batch_end>>),
                !.ids = @ \o [k \in 1..batch_size |-> loan_id + k - 1]]
        /\ loan_id' = loan_id + batch_size
  /\ batch_start' = batch_start + batching.B
  /\ UNCHANGED batchFrame

\* range(0, N, B) is exhausted.
SmallLoopDone ==
  /\ pc = "batch"
  /\ batch_start >= batching.N
  /\ pc' = "batched"
  /\ UNCHANGED << batch_start, loan_id, batching, step, result, exc, failedStep,
                  catalog, buf, state_df, city_df, row, pairsLen, today, saveLog,
                  inProgress, started, written, held, draws, loanTarget,
                  customerRange, customer_loan_pairs, pools, rerun >>

BatchNext ==
  \/ SmallCustomersBatch
  \/ SmallInstitutionsBatch
  \/ SmallLoansBatch
  \/ SmallLoopDone

SpecBatch == BatchInit /\ [][BatchNext]_vars

\* ------------------------------------------------------------------------
\* Properties of the pipeline
\* ------------------------------------------------------------------------
\* The table this run saved under a name, if it saved one.
SavedByRun(name) == \E k \in 1..Len(saveLog) : saveLog[k] = name

\* C1: after a successful run every foreign key refers to an existing parent
\* row: every generated row holds foreign keys within 1..N of its parent
\* (500000 customers, 350000 institutions, 400000 loans, len(INDIAN_CITIES)
\* cities, 28 states), and once main() has returned True each parent table
\* holds exactly the ids 1..N, each once.
C1_ForeignKeysExist ==
  /\ row.table = "loans" =>
       /\ row.customer_id \in 1..500000
       /\ row.institution_id \in 1..350000
  /\ row.table = "payments" => row.loan_id \in 1..400000
  /\ row.table = "defaults_collections" =>
       /\ row.customer_id \in 1..500000
       /\ row.loan_id \in 1..400000
  /\ row.table = "geographic_demographics" => row.city_id \in 1..Len(INDIAN_CITIES)
  /\ row.table = "economic_indicators" => row.state_id \in 1..28
  /\ result = "True" =>
       /\ Gapless(catalog["customers"], 500000)
       /\ Gapless(catalog["institutions"], 350000)
       /\ Gapless(catalog["loans"], 400000)
       /\ Gapless(catalog["dim_city"], Len(INDIAN_CITIES))
       /\ Gapless(catalog["dim_state"], 28)

\* A successful run whose last economic row refers to the last state.
C1_Witness ==
  /\ result = "True"
  /\ row.table = "economic_indicators"
  /\ row.state_id = 28
  /\ catalog["loans"].n = 400000

\* C2: every row of dim_city has a state_id in 1..28 that is the state_id of
\* the one dim_state row of the city's state_name in INDIAN_CITIES, and the
\* lookup by name raises no KeyError.
C2_CityStateExists ==
  /\ exc # "KeyError"
  /\ SavedByRun("dim_city") =>
       LET cities == catalog["dim_city"].rows
           states == catalog["dim_state"].rows
       IN /\ Len(cities) = Len(INDIAN_CITIES)
          /\ \A i \in 1..Len(cities) :
               /\ cities[i].state_id \in 1..28
               /\ \E s \in 1..Len(states) :
                    /\ states[s].state_name = INDIAN_CITIES[i].state_name
                    /\ states[s].state_id = cities[i].state_id
          /\ \A s, t \in 1..Len(states) :
               states[s].state_name = states[t].state_name => s = t

\* dim_city is saved, and its last city (Kalyani) is in West Bengal, state 28.
C2_Witness ==
  /\ SavedByRun("dim_city")
  /\ catalog["dim_city"].rows[Len(INDIAN_CITIES)].state_id = 28
  /\ catalog["dim_city"].rows[1].state_id = 1

\* C3: create_loans produces exactly 400,000 rows whose loan_id values are
\* 1..400000 in generation order, with no gap and no duplicate, and never
\* indexes past the end of customer_loan_pairs.
C3_LoanIdsExact ==
  /\ exc # "IndexError"
  /\ (step = 5 /\ pc \in {"gen", "save", "ret"}) =>
       /\ buf.ids \in {<< >>, << <<1, buf.n>> >>}
       /\ loan_id = buf.n + 1
       /\ batch_start <= pairsLen
       /\ pc \in {"save", "ret"} => buf.n = 400000
  /\ row.table = "loans" => row.loan_id \in 1..400000
  /\ SavedByRun("loans") => Gapless(catalog["loans"], 400000)

\* The loans table is saved with 400,000 rows, the last row generated being
\* loan 400000.
C3_Witness ==
  /\ SavedByRun("loans")
  /\ catalog["loans"].n = 400000
  /\ row.table = "loans"
  /\ row.loan_id = 400000

\* The order of the nine tables as the specification states it.
ClaimedOrder ==
  << "dim_state", "dim_city", "customers", "institutions", "loans",
     "payments", "defaults_collections", "geographic_demographics",
     "economic_indicators" >>

\* C7: the nine tables are saved in the order dim_state, dim_city, customers,
\* institutions, loans, payments, defaults_collections,
\* geographic_demographics, economic_indicators: a save starts only when the
\* saves of all earlier tables are complete, and at most one step is in
\* progress at any time.
C7_SavesInOrder ==
  /\ Len(saveLog) <= Len(ClaimedOrder)
  /\ \A k \in 1..Len(saveLog) : saveLog[k] = ClaimedOrder[k]
  /\ Cardinality(inProgress) <= 1
  /\ pc = "save" =>
       /\ step \in 1..Len(ClaimedOrder)
       /\ Len(saveLog) = step - 1
       /\ inProgress = {step}
  /\ \A k \in started : \A j \in 1..(k - 1) : j \in started

\* All nine tables are saved.
C7_Witness == saveLog = ClaimedOrder /\ pc = "ret"

\* C8: an exception raised in step k, while the rows are generated or while
\* they are saved, ends in main()'s handler: main() returns False, no step
\* after k is started, and the tables saved by steps 1..k-1 hold what this
\* run saved (no rollback), each saved once (no retry).
C8_FailureKeepsSavedTables ==
  /\ pc = "except" => failedStep \in 1..9 /\ exc # "none"
  /\ failedStep > 0 =>
       /\ pc \in {"except", "done"}
       /\ pc = "done" => result = "False"
       /\ step = failedStep
       /\ started = 1..failedStep
       /\ Len(saveLog) = failedStep - 1
       /\ \A t \in 1..(failedStep - 1) :
            /\ saveLog[t] = ClaimedOrder[t]
            /\ written[t].run = "this"
            /\ catalog[ClaimedOrder[t]] = written[t]

\* The save of loans failed: main() returned False, the four tables saved
\* before are in the catalog, and loans holds what it held before the run.
C8_Witness ==
  /\ pc = "done"
  /\ result = "False"
  /\ failedStep = 5
  /\ Len(saveLog) = 4
  /\ catalog["institutions"].n = 350000
  /\ catalog["loans"].run = "old"

\* C9: every run of main() ends, and ends in one of two ways: it returns
\* True, after each of the nine tables was saved once, or it returns False
\* after the first exception; no exception leaves main().
C9_TerminatesTrueOrFalse ==
  /\ <>(pc = "done")
  /\ [](result \in {"none", "True", "False"})
  /\ [](pc = "done" <=> result # "none")
  /\ [](result = "True" => saveLog = ClaimedOrder /\ failedStep = 0)
  /\ [](result = "False" => failedStep > 0 /\ Len(saveLog) = failedStep - 1)

\* main() has returned True with nine tables saved.
C9_Witness == pc = "done" /\ result = "True" /\ Len(saveLog) = 9 /\ exc = "none"

\* ------------------------------------------------------------------------
\* Properties of single rows
\* ------------------------------------------------------------------------
\* C4: in every loan row maturity_date is disbursement_date plus
\* loan_tenure_months * 30 days, and disbursement_date is 7 to 45 days after
\* application_date, so strictly later.
C4_LoanDates ==
  row.table = "loans" =>
    /\ row.maturity_date = row.disbursement_date + row.loan_tenure_months * 30
    /\ row.disbursement_date > row.application_date
    /\ row.disbursement_date - row.application_date \in 7..45
    /\ row.loan_tenure_months \in {36, 48, 60, 72, 84, 96}

\* A 96-month loan applied for 1460 days ago and disbursed 45 days later.
C4_Witness ==
  /\ row.table = "loans"
  /\ row.loan_tenure_months = 96
  /\ row.application_date = today - 1460
  /\ row.disbursement_date = row.application_date + 45
  /\ row.maturity_date = row.disbursement_date + 2880

\* C5: in every defaults_collections row, whatever its collection_status
\* (Active, Legal Action, Settled, Written Off), the stored recovery_amount is
\* at least 0 and at most the stored default_amount.
C5_RecoveryWithinDefault ==
  row.table = "defaults_collections" =>
    /\ row.collection_status \in {"Active", "Legal Action", "Settled", "Written Off"}
    /\ row.recovery_amount >= 0
    /\ row.recovery_amount <= row.default_amount

\* A settled default recovered at the top rate, 90 % of the amount.
C5_Witness ==
  /\ row.table = "defaults_collections"
  /\ row.collection_status = "Settled"
  /\ row.default_amount = 80000000
  /\ row.recovery_amount * 10 = row.default_amount * 9

\* ------------------------------------------------------------------------
\* Properties of the assignment and of repeated runs
\* ------------------------------------------------------------------------
\* C6 as stated: two runs with the same seed write the same rows, column for
\* column.
C6_SameSeedSameTables ==
  Len(rerun) = 2 => rerun[1] = rerun[2]

ClaimedPoolLen(L) ==
  (6 * L) \div 10 + 2 * ((L \div 4) \div 2)
    + 3 * ((L - (6 * L) \div 10 - L \div 4) \div 3)

Occurrences(pairs, id) == Cardinality({i \in 1..Len(pairs) : pairs[i] = id})

\* How many of the n draws from the a-th on (a from 0) gave the customer id.
DrawnTimes(id, a, n) ==
  Cardinality({k \in a..(a + n - 1) : TapeAt(draws.tape, k) = id})

\* The draws of the three loops for a target L, from the target alone.
ClaimedSingles(L) == (6 * L) \div 10

ClaimedDoubles(L) == (L \div 4) \div 2

ClaimedTriples(L) == (L - (6 * L) \div 10 - L \div 4) \div 3

\* C21: the three pools are filled by independent draws over the same
\* customer id range and nothing checks for or removes a repeated id: the
\* list only grows while it is filled, and the assignment gives a customer
\* one loan for each time it was drawn for the 1-loan pool, two for each
\* time for the 2-loan pool and three for each time for the 3-loan pool, so
\* a customer drawn in several pools, or several times in one, receives a
\* number of loans that is not its pool's multiplicity and may exceed 3.
C21_NoDeduplication ==
  /\ [](pc \in {"assigned", "read"} =>
          \A id \in 1..customerRange :
            Occurrences(customer_loan_pairs, id) =
              DrawnTimes(id, 0, ClaimedSingles(loanTarget))
              + 2 * DrawnTimes(id, ClaimedSingles(loanTarget), ClaimedDoubles(loanTarget))
              + 3 * DrawnTimes(id, ClaimedSingles(loanTarget) + ClaimedDoubles(loanTarget),
                               ClaimedTriples(loanTarget)))
  /\ [][(pc = "assign" /\ pc' = "assign") =>
          /\ Len(customer_loan_pairs') > Len(customer_loan_pairs)
          /\ SubSeq(customer_loan_pairs', 1, Len(customer_loan_pairs)) =
               customer_loan_pairs]_vars

\* Customer 1 was drawn for the 1-loan pool, for the 2-loan pool and for the
\* 3-loan pool of a target of 16 and receives more than three loans, while
\* customer 2 was drawn as well.
C21_Witness ==
  /\ pc = "assigned"
  /\ loanTarget = 16
  /\ customerRange = 2
  /\ DrawnTimes(1, 0, 9) > 0
  /\ DrawnTimes(1, 9, 2) > 0
  /\ DrawnTimes(1, 11, 1) > 0
  /\ DrawnTimes(2, 0, 9) > 0
  /\ Occurrences(customer_loan_pairs, 1) > 3
  /\ Occurrences(customer_loan_pairs, 2) > 0

\* The list the three loops build for a target L, in the order of the
\* draws: ClaimedSingles(L) single entries, then ClaimedDoubles(L) pairs,
\* then ClaimedTriples(L) triples.
ClaimedFill(L) ==
  LET n1 == ClaimedSingles(L)
      n2 == ClaimedDoubles(L)
      n3 == ClaimedTriples(L)
  IN [i \in 1..(n1 + 2 * n2 + 3 * n3) |->
        IF i <= n1 THEN TapeAt(draws.tape, i - 1)
        ELSE IF i <= n1 + 2 * n2 THEN TapeAt(draws.tape, n1 + (i - n1 - 1) \div 2)
        ELSE TapeAt(draws.tape, n1 + n2 + (i - n1 - 2 * n2 - 1) \div 3)]

C24_StatusAgreesWithDates ==
  row.table = "loans" =>
    /\ row.loan_status = "Closed" => row.maturity_date <= today
    /\ row.loan_status = "Active" => row.maturity_date > today
    /\ row.disbursement_date <= today - 15
    /\ (today - row.disbursement_date) \div 30 >= 0

\* A loan of 36 months closed on the day it matures.
C24_Witness ==
  /\ row.table = "loans"
  /\ row.loan_status = "Closed"
  /\ row.loan_tenure_months = 36
  /\ row.maturity_date = today

\* The customer ids that occur in a list.
Borrowers(pairs) == {pairs[i] : i \in 1..Len(pairs)}

OtherColumns(out) ==
  [customers |->
     << out.customers.customer_id, out.customers.city_id,
        out.customers.annual_income, out.customers.cibil_score,
        out.customers.employment_type >>,
   loans |->
     << out.loans.loan_id, out.loans.customer_id, out.loans.institution_id,
        out.loans.loan_amount, out.loans.interest_rate, out.loans.emi_amount,
        out.loans.loan_tenure_months, out.loans.loan_status >>,
   payments |->
     << out.payments.payment_id, out.payments.loan_id,
        out.payments.payment_amount, out.payments.payment_status >>,
   defaults_collections |->
     << out.defaults_collections.default_id, out.defaults_collections.customer_id,
        out.defaults_collections.loan_id, out.defaults_collections.default_amount,
        out.defaults_collections.days_overdue,
        out.defaults_collections.collection_status,
        out.defaults_collections.legal_notice_sent,
        out.defaults_collections.recovery_amount >>]

\* C26: the date read from the clock reaches only the date columns: two
\* runs that make the same draws on different dates write the same value in
\* every other column, loan_status, days_overdue and collection_status
\* included.
C26_ClockChangesOnlyDates ==
  Len(rerun) = 2 => OtherColumns(rerun[1]) = OtherColumns(rerun[2])

\* Two runs a day apart, the second in the next year: every date column
\* differs, the year of birth included, and the other columns agree.
C26_Witness ==
  /\ Len(rerun) = 2
  /\ rerun[1].customers.date_of_birth.year + 1 = rerun[2].customers.date_of_birth.year
  /\ rerun[1].loans.application_date + 1 = rerun[2].loans.application_date
  /\ rerun[1].loans.disbursement_date + 1 = rerun[2].loans.disbursement_date
  /\ rerun[1].loans.maturity_date + 1 = rerun[2].loans.maturity_date
  /\ rerun[1].payments.payment_date + 1 = rerun[2].payments.payment_date
  /\ rerun[1].defaults_collections.default_date + 1
       = rerun[2].defaults_collections.default_date
  /\ rerun[1].defaults_collections.last_contact_date + 1
       = rerun[2].defaults_collections.last_contact_date
  /\ rerun[1].defaults_collections.days_overdue > 730
  /\ rerun[1].loans.loan_status = rerun[2].loans.loan_status
  /\ OtherColumns(rerun[1]) = OtherColumns(rerun[2])

\* ------------------------------------------------------------------------
\* Properties of the money columns
\* ------------------------------------------------------------------------
\* C11 as stated: the EMI recomputed from the stored loan_amount, the stored
\* interest_rate and the stored loan_tenure_months is within 0.01 of the
\* stored emi_amount.
C11_EmiReproducible ==
  row.table = "loans" =>
    LET recomputed == EmiAmount(row.loan_amount * 10, row.interest_rate * 100,
                                row.loan_tenure_months)
    IN /\ recomputed - row.emi_amount * 10 <= 10
       /\ row.emi_amount * 10 - recomputed <= 10

\* The draw u (in thousandths), the score s and the elapsed months m of the
\* loan row generated last.
DrawnU == Max(0, Min(999, draws.d.status_rand))

DrawnScore == Max(300, Min(900, draws.d.cibil_score))

ElapsedMonths == Max(1, (today - row.disbursement_date) \div 30)

\* The default probability the claim states, in thousandths.
ClaimedP == IF DrawnScore < 600 THEN 230 ELSE IF DrawnScore < 700 THEN 160 ELSE 80

\* C12: loan_status is one of Active, Closed, Overdue, Defaulted, decided in
\* this order: Defaulted when u < p, else Overdue when u < p + 0.06, else
\* Closed when m >= n, else Active, with p = 0.23 for s < 600, 0.16 for
\* 600 <= s < 700 and 0.08 otherwise.
C12_StatusPrecedence ==
  (row.table = "loans" /\ draws.table = "loans") =>
    /\ row.loan_status \in {"Active", "Closed", "Overdue", "Defaulted"}
    /\ row.loan_status =
         IF DrawnU < ClaimedP THEN "Defaulted"
         ELSE IF DrawnU < ClaimedP + 60 THEN "Overdue"
         ELSE IF ElapsedMonths >= row.loan_tenure_months THEN "Closed"
         ELSE "Active"

\* A loan of 36 months disbursed more than 36 months ago that is Defaulted.
C12_Witness ==
  /\ row.table = "loans"
  /\ draws.table = "loans"
  /\ row.loan_tenure_months = 36
  /\ ElapsedMonths >= 36
  /\ DrawnScore = 650
  /\ DrawnU = 159
  /\ row.loan_status = "Defaulted"

\* ------------------------------------------------------------------------
\* Properties of the generated tables
\* ------------------------------------------------------------------------
\* The rows of dim_state as the claim describes them.
ClaimedStateRows(rows) ==
  /\ Len(rows) = 28
  /\ Len(INDIAN_STATES) = 28
  /\ \A i \in 1..Len(rows) :
       /\ rows[i].state_id = i
       /\ rows[i].state_name = INDIAN_STATES[i].state_name
       /\ rows[i].region \in {"North", "South", "East", "West", "Central", "Northeast"}
  /\ \A i, j \in 1..Len(rows) : rows[i].state_name = rows[j].state_name => i = j

\* C13: create_dim_state yields exactly 28 rows with state_id 1..28, each
\* once, in the order of INDIAN_STATES, with unique state names and every
\* region one of North, South, East, West, Central, Northeast.
C13_StateRowsExact ==
  /\ (step = 1 /\ pc \in {"save", "ret"}) =>
       /\ ClaimedStateRows(buf.rows)
       /\ Gapless(buf, 28)
  /\ SavedByRun("dim_state") =>
       /\ ClaimedStateRows(catalog["dim_state"].rows)
       /\ Gapless(catalog["dim_state"], 28)
  /\ step > 1 => ClaimedStateRows(state_df)

\* dim_state is saved by this run; its last row is West Bengal, state 28.
C13_Witness ==
  /\ SavedByRun("dim_state")
  /\ written[1].run = "this"
  /\ catalog["dim_state"].rows[28].state_name = "West Bengal"
  /\ catalog["dim_state"].rows[28].state_id = 28
  /\ catalog["dim_state"].rows[1].region = "South"

\* The days of a month of the Gregorian calendar.
DaysInMonth(year, month) ==
  IF month = 2
  THEN IF year % 4 = 0 /\ (year % 100 # 0 \/ year % 400 = 0) THEN 29 ELSE 28
  ELSE IF month \in {4, 6, 9, 11} THEN 30 ELSE 31

C15_BaseIncomeByTier ==
  row.table = "customers" =>
    /\ row.tier = "Tier1" => row.base_income \in 600000..1800000
    /\ row.tier = "Tier2" => row.base_income \in 400000..1200000
    /\ row.tier \notin {"Tier1", "Tier2"} => row.base_income \in 250000..800000
    /\ \E i \in 1..Len(city_df) :
         city_df[i].city_id = row.city_id /\ city_df[i].tier_classification = row.tier

\* A student of a Tier1 city with the highest base income of that tier.
C15_Witness ==
  /\ row.table = "customers"
  /\ row.tier = "Tier1"
  /\ row.base_income = 1800000
  /\ row.employment_type = "Student"
  /\ row.annual_income = 1800000 * 40

\* C16: in every payment row payment_amount is at least 1000 and
\* payment_status is one of Success, Failed, Pending, and the payment_id
\* values are exactly 1..350000, with no gap and no duplicate.
C16_PaymentRowsValid ==
  /\ row.table = "payments" =>
       /\ row.payment_amount >= 1000 * 100
       /\ row.payment_status \in {"Success", "Failed", "Pending"}
       /\ row.payment_id \in 1..350000
  /\ (step = 6 /\ pc \in {"save", "ret"}) => Gapless(buf, 350000)
  /\ SavedByRun("payments") => Gapless(catalog["payments"], 350000)

\* The payments are saved, 350000 of them; the last is a pending partial
\* payment of 30 % of the lowest EMI, 1500.00.
C16_Witness ==
  /\ SavedByRun("payments")
  /\ catalog["payments"].n = 350000
  /\ row.table = "payments"
  /\ row.payment_id = 350000
  /\ row.payment_status = "Pending"
  /\ row.payment_amount = 1500 * 100

\* C17: in every geographic_demographics row
\* 0 <= higher_education_enrollment <= population_18_35 <= population_total.
C17_PopulationNested ==
  row.table = "geographic_demographics" =>
    /\ 0 <= row.higher_education_enrollment
    /\ row.higher_education_enrollment <= row.population_18_35
    /\ row.population_18_35 <= row.population_total

\* A city of 1,234,567 with the highest shares: int(444444.12) of 18 to 35
\* and int(124444.32) of them enrolled.
C17_Witness ==
  /\ row.table = "geographic_demographics"
  /\ row.population_total = 1234567
  /\ row.population_18_35 = 444444
  /\ row.higher_education_enrollment = 124444

\* C19: each of the nine saves overwrites the table of the same name: once
\* main() has returned True, whatever the catalog held before the run, each
\* of the nine names holds exactly the rows this run generated for it (none
\* of an earlier run, none appended), and no step of the run creates or
\* changes a table of another name.
C19_SavesOverwrite ==
  /\ [](result = "True" =>
          \A k \in 1..9 :
            /\ catalog[ClaimedOrder[k]] = written[k]
            /\ catalog[ClaimedOrder[k]].run = "this"
            /\ catalog[ClaimedOrder[k]].n > 0)
  /\ [][/\ catalog'[OTHER_TABLE] = catalog[OTHER_TABLE]
        /\ \A k \in 1..9 :
             catalog'[ClaimedOrder[k]] # catalog[ClaimedOrder[k]] =>
               /\ pc = "save"
               /\ step = k
               /\ catalog'[ClaimedOrder[k]] = buf]_vars

\* A successful run over a catalog in which every name held the rows of an
\* earlier run: the nine tables are this run's, the tenth is as it was.
C19_Witness ==
  /\ result = "True"
  /\ catalog[OTHER_TABLE] = OldTable(OldRows)
  /\ catalog["dim_state"].n = 28
  /\ catalog["loans"].n = 400000
  /\ catalog["loans"].run = "this"
  /\ \A k \in 1..9 : catalog[ClaimedOrder[k]] = written[k]

\* C20: the rows of each of the seven tables generated after the two
\* dimension tables are released once the table is saved and before the
\* next generator is called; the rows of dim_state and dim_city are held
\* from their generation until main() returns; so at most three tables'
\* rows are held at a time: the two dimension tables and the table being
\* generated.
C20_FactRowsReleasedDimensionsKept ==
  /\ Cardinality(held) <= 3
  /\ pc = "done" => held = {}
  /\ pc # "done" =>
       /\ "dim_state" \in held <=> (step > 1 \/ pc # "main")
       /\ "dim_city" \in held <=> (step > 2 \/ (step = 2 /\ pc # "main"))
       /\ \A k \in 3..9 :
            ClaimedOrder[k] \in held <=> (step = k /\ pc # "main")

\* C20 as stated: at any moment of a run at most one table's rows are held.
C20_AtMostOneTableHeld == Cardinality(held) <= 1

\* While the loans are generated the rows of three tables are held; the
\* customers and the institutions, saved before, are not among them.
C20_Witness ==
  /\ step = 5
  /\ pc = "gen"
  /\ buf.n = 200000
  /\ held = {"dim_state", "dim_city", "loans"}
  /\ SavedByRun("customers")
  /\ SavedByRun("institutions")

\* C23: the state and city tables are never modified after they are
\* created: once main() holds one, no step changes it (create_dim_city
\* leaves the state table, create_customers and create_institutions leave
\* the city table: same rows, same order, same values), so every later
\* generator reads the table that was saved.
C23_ReferenceTablesUnchanged ==
  /\ [](step > 1 => state_df = written[1].rows /\ Len(state_df) = 28)
  /\ [](step > 2 => city_df = written[2].rows /\ Len(city_df) > 0)
  /\ [][/\ state_df # << >> => state_df' = state_df
        /\ city_df # << >> => city_df' = city_df]_vars

\* Customers and institutions are generated and saved, and main() holds the
\* city table that create_dim_city returned.
C23_Witness ==
  /\ step = 5
  /\ pc = "main"
  /\ catalog["customers"].n = 500000
  /\ catalog["institutions"].n = 350000
  /\ city_df = written[2].rows
  /\ city_df = catalog["dim_city"].rows
  /\ Len(city_df) > 28
  /\ state_df = catalog["dim_state"].rows

\* The rate drawn for the loan, in ten-thousandths of a percent, from the
\* band of the drawn score.
DrawnRate ==
  LET lo == IF DrawnScore >= 750 THEN 85000
            ELSE IF DrawnScore >= 650 THEN 105000 ELSE 125000
      hi == IF DrawnScore >= 750 THEN 115000
            ELSE IF DrawnScore >= 650 THEN 140000 ELSE 175000
  IN Max(lo, Min(hi, draws.d.interest_rate))

\* C27: the interest rate of every loan lies in the band of its simulated
\* score s (s >= 750: 8.5 to 11.5; 650 <= s < 750: 10.5 to 14.0; s < 650:
\* 12.5 to 17.5) and is positive, so the EMI is computed by the
\* amortization formula, whose divisor (1 + r)^n - 1 is positive, and never
\* as P / n.
C27_RateInBandAndPositive ==
  (row.table = "loans" /\ draws.table = "loans") =>
    /\ DrawnScore >= 750 => row.interest_rate \in 850..1150
    /\ (DrawnScore >= 650 /\ DrawnScore < 750) => row.interest_rate \in 1050..1400
    /\ DrawnScore < 650 => row.interest_rate \in 1250..1750
    /\ row.interest_rate = RoundRate(DrawnRate)
    /\ row.interest_rate > 0
    /\ (DrawnRate * 25) \div 3 > 0
    /\ PowFix(ONE + (DrawnRate * 25) \div 3, row.loan_tenure_months) - ONE > 0
    /\ row.emi_amount * row.loan_tenure_months > row.loan_amount

\* A loan of 96 months at the lowest rate of the middle band.
C27_Witness ==
  /\ row.table = "loans"
  /\ draws.table = "loans"
  /\ DrawnScore = 650
  /\ row.interest_rate = 1050
  /\ row.loan_tenure_months = 96
  /\ row.emi_amount * 96 > row.loan_amount

\* C28: in every defaults_collections row days_overdue is in 30..1095 and
\* the collection_status agrees with it: up to 180 days the status is
\* Active, Settled needs more than 730 days, Written Off more than 365 and
\* Legal Action more than 180; legal_notice_sent is true whenever the status
\* is Legal Action or Written Off and false whenever days_overdue <= 180.
C28_StatusAgreesWithDaysOverdue ==
  row.table = "defaults_collections" =>
    /\ row.days_overdue \in 30..1095
    /\ row.days_overdue <= 180 => row.collection_status = "Active"
    /\ row.collection_status = "Settled" => row.days_overdue > 730
    /\ row.collection_status = "Written Off" => row.days_overdue > 365
    /\ row.collection_status = "Legal Action" => row.days_overdue > 180
    /\ row.collection_status \in {"Legal Action", "Written Off"} =>
         row.legal_notice_sent
    /\ row.days_overdue <= 180 => ~row.legal_notice_sent

\* A default of 181 days under Legal Action, with the notice sent.
C28_Witness ==
  /\ row.table = "defaults_collections"
  /\ row.days_overdue = 181
  /\ row.collection_status = "Legal Action"
  /\ row.legal_notice_sent

\* C29: in every defaults_collections row the last contact is on or after
\* the default date, before the run date and at most 90 days back; the range
\* 1..min(days_overdue, 90) the contact is drawn from is never empty, so the
\* row is always generated and nothing is raised.
C29_LastContactAfterDefault ==
  /\ (pc = "rowdone" /\ draws.table = "defaults_collections") =>
       /\ exc = "none"
       /\ row.table = "defaults_collections"
  /\ row.table = "defaults_collections" =>
       /\ row.last_contact_date >= row.default_date
       /\ row.last_contact_date < today
       /\ row.last_contact_date >= today - 90
       /\ row.days_overdue >= 30

\* A default 30 days old last contacted on the day of the default.
C29_Witness ==
  /\ pc = "rowdone"
  /\ exc = "none"
  /\ row.table = "defaults_collections"
  /\ row.days_overdue = 30
  /\ row.last_contact_date = row.default_date
  /\ row.default_date = today - 30

\* The share of the interest drawn for the payment, in thousandths.
DrawnShare == Max(300, Min(700, draws.d.interest_share))

\* The interest before rounding, in thousandths of a rupee: the payment
\* amount times the drawn share.
ClaimedInterest ==
  LET amount == PaymentAmount(draws.d)
  IN (amount \div 1000) * DrawnShare + ((amount % 1000) * DrawnShare) \div 1000

\* C30: a payment that is Failed or Pending has principal_component,
\* interest_component and late_fee 0; in a Success payment the components
\* before rounding are positive and sum to the payment amount, the interest
\* being between 30 % and 70 % of it (to the thousandth of a rupee), and
\* the row stores each rounded to 2 decimals.
C30_PaymentComponents ==
  (row.table = "payments" /\ draws.table = "payments") =>
    LET amount == PaymentAmount(draws.d)
        interest == ClaimedInterest
        principal == amount - interest
    IN /\ row.payment_status \in {"Failed", "Pending"} =>
            /\ row.principal_component = 0
            /\ row.interest_component = 0
            /\ row.late_fee = 0
       /\ row.payment_status = "Success" =>
            /\ interest > 0
            /\ principal > 0
            /\ 10 * interest + 10 > 3 * amount
            /\ 10 * interest <= 7 * amount
            /\ row.interest_component = Round2(interest)
            /\ row.principal_component = Round2(principal)
            /\ row.interest_component > 0
            /\ row.principal_component > 0
            /\ row.interest_component + row.principal_component - row.payment_amount
                 \in {0 - 1, 0, 1}
            /\ row.late_fee \in 0..100000

\* A successful payment of 1500.00 with 70 % interest, and a late fee.
C30_Witness ==
  /\ row.table = "payments"
  /\ draws.table = "payments"
  /\ row.payment_status = "Success"
  /\ row.payment_amount = 150000
  /\ row.interest_component = 105000
  /\ row.principal_component = 45000
  /\ row.late_fee = 100000

\* ------------------------------------------------------------------------
\* Properties of the batched loops
\* ------------------------------------------------------------------------
\* C18: for a target N and a batch size B the batched generators run
\* ceil(N / B) batches; the batches are disjoint and consecutive and cover
\* the row indices 0..N-1 once, the last being cut to N - batch_start rows,
\* and the ids generated are 1..N in order, with no gap and no duplicate.
C18_BatchesCoverTarget ==
  batching.generator \in BatchedGenerators =>
    LET N == batching.N
        B == batching.B
        batches == batching.batches
        ids == batching.ids
    IN /\ \A k \in 1..Len(batches) :
            /\ batches[k][1] = (k - 1) * B
            /\ batches[k][1] < N
            /\ batches[k][2] = IF k * B <= N THEN k * B ELSE N
            /\ batches[k][2] > batches[k][1]
       /\ \A k \in 1..Len(ids) : ids[k] = k
       /\ Len(batches) > 0 => Len(ids) = batches[Len(batches)][2]
       /\ Len(batches) = 0 => Len(ids) = 0
       /\ pc = "batched" =>
            /\ Len(batches) = (N + B - 1) \div B
            /\ Len(ids) = N

\* Seven loans in batches of three: two full batches and a last one of one
\* row, with the ids 1..7.
C18_Witness ==
  /\ pc = "batched"
  /\ batching.generator = "loans"
  /\ batching.N = 7
  /\ batching.B = 3
  /\ batching.batches = << <<0, 3>>, <<3, 6>>, <<6, 7>> >>
  /\ batching.ids = <<1, 2, 3, 4, 5, 6, 7>>

=============================================================================
